---- MODULE Spec2Model ----
(***************************************************************************)
(* Likelihood propagation kernels of cogent3                               *)
(* (src/src/cogent3/evolve/_likelihood_tree_numba.py):                     *)
(*   sum_input_likelihoods            the Node Combiner                    *)
(*   get_total_log_likelihood_step1   the Root Aggregator (one row)        *)
(*   get_log_sum_across_sites         the Log Aggregator                   *)
(*                                                                         *)
(* The kernels compute on float64.  The model keeps the structure of       *)
(* binary floating point (a significand of PrecBits bits, round to nearest *)
(* even, signed infinities and NaN) with a short significand, so that      *)
(* rounding, 0 * inf and inf - inf behave as they do in the code.  The     *)
(* exponent is not bounded: the magnitudes the model reaches are far from  *)
(* float64's overflow and underflow thresholds.  Zero carries no sign.     *)
(*                                                                         *)
(* Sequence methods of src/cogent3/core/sequence.py, each on its own       *)
(* specification: with_termini_unknown, ModelSequenceBase.is_valid,        *)
(* sliding_windows, frac_same_non_gaps and frac_diff_non_gaps.             *)
(***************************************************************************)
EXTENDS Integers, Sequences, FiniteSets, TLC

\* ------------------------------------------------------------------------
\* Bounds of the model
\* ------------------------------------------------------------------------

\* bits of significand of the model's floating-point format
PrecBits == 3

\* most children of one node in the step-level model of the combiner
MaxChildren == 2

\* parent patterns: the length of every index map, the rows of result
NumPatterns == 3

\* rows (patterns) of a child's matrix
ChildRows == 2

\* motifs K
NumMotifs == 2

\* calls made into one result buffer
MaxCalls == 2

\* workers that share the parent rows of one call of the combiner
NumWorkers == 2

\* largest factor by which a pattern's count is scaled
MaxFactor == 4

\* most children of the node whose children are taken in two orders
PermChildren == 3

\* longest sequence
MaxSeqLen == 4

\* symbols of the Alphabet of a ModelSequence
AlphabetLen == 2

\* ------------------------------------------------------------------------
\* Floating-point values: <<class, n, e>>
\*   <<"fin", n, e>>  the number n * 2^e, n = 0 (then e = 0) or
\*                    2^(PrecBits-1) <= |n| < 2^PrecBits
\*   <<"inf", s, 0>>  s = 1: +inf, s = -1: -inf
\*   <<"nan", 0, 0>>  NaN
\* ------------------------------------------------------------------------

Abs(n) == IF n < 0 THEN 0 - n ELSE n

Sign(n) == IF n < 0 THEN 0 - 1 ELSE IF n = 0 THEN 0 ELSE 1

Min(a, b) == IF a <= b THEN a ELSE b

Fin(n, e) == <<"fin", n, e>>

NaN == <<"nan", 0, 0>>

PosInf == <<"inf", 1, 0>>

NegInf == <<"inf", 0 - 1, 0>>

Zero == Fin(0, 0)

IsNaN(x) == x[1] = "nan"

IsInf(x) == x[1] = "inf"

IsFin(x) == x[1] = "fin"

IsZero(x) == IsFin(x) /\ x[2] = 0

\* the number of low bits to drop so that a fits the significand
RECURSIVE ShiftFor(_)
ShiftFor(a) == IF a < 2^PrecBits THEN 0 ELSE 1 + ShiftFor(a \div 2)

\* a > 0 below the normal range, scaled up exactly
RECURSIVE ScaleUp(_, _)
ScaleUp(a, e) == IF a >= 2^(PrecBits - 1) THEN <<a, e>> ELSE ScaleUp(2 * a, e - 1)

\* the float nearest to the exact number n * 2^e, ties to even
Round(n, e) ==
    IF n = 0 THEN Zero
    ELSE LET a == Abs(n)
             sg == Sign(n)
         IN IF a < 2^PrecBits
            THEN LET u == ScaleUp(a, e) IN Fin(sg * u[1], u[2])
            ELSE LET s == ShiftFor(a)
                     q == a \div (2^s)
                     r == a % (2^s)
                     half == 2^(s - 1)
                     up == r > half \/ (r = half /\ q % 2 = 1)
                     q2 == IF up THEN q + 1 ELSE q
                 IN IF q2 = 2^PrecBits
                    THEN Fin(sg * 2^(PrecBits - 1), e + s + 1)
                    ELSE Fin(sg * q2, e + s)

\* int64 -> float64 conversion of a count
FromInt(k) == Round(k, 0)

One == FromInt(1)

\* x * y on floats
FMul(x, y) ==
    IF IsNaN(x) \/ IsNaN(y) THEN NaN
    ELSE IF IsInf(x) \/ IsInf(y)
         THEN IF IsZero(x) \/ IsZero(y) THEN NaN
              ELSE <<"inf", Sign(x[2]) * Sign(y[2]), 0>>
         ELSE Round(x[2] * y[2], x[3] + y[3])

\* x + y on floats
FAdd(x, y) ==
    IF IsNaN(x) \/ IsNaN(y) THEN NaN
    ELSE IF IsInf(x) /\ IsInf(y) THEN (IF x[2] = y[2] THEN x ELSE NaN)
    ELSE IF IsInf(x) THEN x
    ELSE IF IsInf(y) THEN y
    ELSE IF IsZero(x) THEN y
    ELSE IF IsZero(y) THEN x
    ELSE LET m == Min(x[3], y[3])
         IN Round(x[2] * 2^(x[3] - m) + y[2] * 2^(y[3] - m), m)

\* the fraction bits of log2(y / 2^12) for 2^12 <= y < 2^13, k bits of them,
\* by repeated squaring
RECURSIVE Log2Frac(_, _)
Log2Frac(y, k) ==
    IF k = 0 THEN 0
    ELSE LET y2 == (y * y) \div (2^12)
         IN IF y2 >= 2^13
            THEN 2^(k - 1) + Log2Frac(y2 \div 2, k - 1)
            ELSE Log2Frac(y2, k - 1)

\* numpy.log on one element: natural logarithm, log(0) = -inf,
\* log of a negative number or of -inf = NaN, no exception.  A positive
\* finite x = n * 2^e has ln x = log2(x) * ln 2, here with log2 to 10
\* fraction bits and ln 2 = 710/1024, rounded to the format.
FLog(x) ==
    IF IsNaN(x) THEN NaN
    ELSE IF IsInf(x) THEN (IF x[2] > 0 THEN PosInf ELSE NaN)
    ELSE IF x[2] < 0 THEN NaN
    ELSE IF x[2] = 0 THEN NegInf
    ELSE LET t == (x[3] + PrecBits - 1) * (2^10)
                      + Log2Frac(x[2] * 2^(13 - PrecBits), 10)
         IN Round(t * 710, 0 - 20)

\* x > 1.0 on floats
ExceedsOne(x) ==
    \/ x = PosInf
    \/ /\ IsFin(x)
       /\ x[2] > 0
       /\ IF x[3] >= 0 THEN x[2] > 1 ELSE x[2] > 2^(0 - x[3])

\* ------------------------------------------------------------------------
\* Arrays are functions on 0 .. n-1, as numpy indexes them
\* ------------------------------------------------------------------------

Len0(a) == Cardinality(DOMAIN a)

Range0(n) == 0 .. (n - 1)

\* a rows x cols array holding v everywhere
Fill(rows, cols, v) == [p \in Range0(rows) |-> [m \in Range0(cols) |-> v]]

\* ------------------------------------------------------------------------
\* Inputs the model draws from
\* ------------------------------------------------------------------------

\* probabilities whose products need rounding, and one that needs none
Grades ==
    <<Fin(2^(PrecBits - 1) + 1, 0 - PrecBits),
      Fin(2^PrecBits - 1, 0 - PrecBits),
      Fin(2^(PrecBits - 1), 0 - PrecBits)>>

\* child matrices: a fully unknown leaf (all ones), two unambiguous leaves
\* (one-hot rows) and two matrices of probabilities (a transformed child)
MatFamily(rows, cols) ==
    <<Fill(rows, cols, One),
      [r \in Range0(rows) |-> [m \in Range0(cols) |->
          IF m = r % cols THEN One ELSE Zero]],
      [r \in Range0(rows) |-> [m \in Range0(cols) |->
          IF m = (r + 1) % cols THEN One ELSE Zero]],
      [r \in Range0(rows) |-> [m \in Range0(cols) |->
          Grades[((r + 2 * m) % 3) + 1]]],
      [r \in Range0(rows) |-> [m \in Range0(cols) |->
          Grades[((r + 2 * m + 1) % 3) + 1]]]>>

NumMats == Len(MatFamily(1, 1))

\* index maps from len parent patterns into rows child rows: the rotations
\* (k = 0 is the identity when len <= rows) and the constant maps
NumMaps(rows) == 2 * rows

MapFamily(len, rows, k) ==
    IF k < rows
    THEN [p \in Range0(len) |-> (p + k) % rows]
    ELSE [p \in Range0(len) |-> k - rows]

\* the index maps of c children: child i gets map t + i*d of the family
\* (d = 0: the same map for every child, d = 1: consecutive maps)
MapTuple(c, len, rows, t, d) ==
    [i \in Range0(c) |-> MapFamily(len, rows, (t + i * d) % NumMaps(rows))]

\* motif probabilities summing to 1: all mass on motif 0, halves on motifs
\* 0 and 1, a quarter and three quarters on motifs 0 and 1
MProbsFamily(k) ==
    {[m \in Range0(k) |-> IF m = 0 THEN One ELSE Zero],
     [m \in Range0(k) |-> IF m < 2 THEN Round(1, 0 - 1) ELSE Zero],
     [m \in Range0(k) |-> IF m = 0 THEN Round(1, 0 - 2)
                          ELSE IF m = 1 THEN Round(3, 0 - 2) ELSE Zero]}

\* pattern multiplicities; the kernel takes any integers, a weight of 0
\* included
CountsFamily(n) ==
    {[p \in Range0(n) |-> 1],
     [p \in Range0(n) |-> p + 1],
     [p \in Range0(n) |-> IF p = 0 THEN 10 ELSE 1],
     [p \in Range0(n) |-> IF p = n - 1 THEN 0 ELSE 2]}

\* a variable that holds no array or number yet
NoValue == <<>>

\* ------------------------------------------------------------------------
\* State
\* ------------------------------------------------------------------------
VARIABLES
    child_indexes,  \* argument: one index map per child
    likelihoods,    \* argument: one matrix per child
    result,         \* argument: the caller's buffer
    child,          \* loop variable of sum_input_likelihoods
    parent_col,     \* loop variable
    motif,          \* loop variable
    pc,             \* where the evaluation stands
    ret,            \* the array object returned: "none" before the return
    exc,            \* the exception raised by a kernel: "none" when none
    nalloc,         \* arrays allocated by the kernels in this evaluation
    mprobs,         \* argument of get_total_log_likelihood_step1
    total,          \* its results, one per pattern aggregated so far
    counts,         \* argument of get_log_sum_across_sites
    loglik,         \* its result
    calls,          \* evaluations made into this buffer, the current included
    result0,        \* what result held when the current call began
    written,        \* the cells of result the current call has assigned
    staleRead,      \* the current call has read a cell it had not yet written
    nwrites,        \* how many times the current call has written each cell
    perm,           \* the order in which a second call takes the children
    result2,        \* the buffer of that second call
    tree,           \* index maps of a two-level tree: internal node and root
    nodeResult,     \* the internal node's buffer
    workers,        \* the local variables of each concurrent worker
    sharedRes,      \* res, the accumulator of an aggregator's loop, shared by threads
    order,          \* the loop iterations carried out so far, in that order
    walk,           \* the Tree Walker: what each node of the tree has done
    scaled,         \* a second call of the log aggregator, one count scaled
    self_seq,       \* self of a sequence method: its characters, or its indices
    other,          \* the other sequence of a comparison
    locals,         \* arguments and local variables of the method under way
    retval          \* what the method returned, or has yielded so far

argVars == <<child_indexes, likelihoods>>

loopVars == <<child, parent_col, motif>>

aggVars == <<mprobs, total, counts, loglik>>

histVars == <<calls, result0, written, staleRead, nwrites>>

\* the write counts after one more write of each of the cells
Bump(count, cells) ==
    [c \in DOMAIN count \cup cells |->
        (IF c \in DOMAIN count THEN count[c] ELSE 0) + (IF c \in cells THEN 1 ELSE 0)]

cmpVars == <<perm, result2, tree, nodeResult>>

parVars == <<workers, sharedRes, order, walk, scaled>>

seqVars == <<self_seq, other, locals, retval>>

vars == <<argVars, result, loopVars, pc, ret, exc, nalloc, aggVars, histVars, cmpVars,
          parVars, seqVars>>

\* ------------------------------------------------------------------------
\* sum_input_likelihoods
\* ------------------------------------------------------------------------

\* mutants of IsFirstChild: the test never true; the test off by one
IsFirstChild_never(c) == FALSE

IsFirstChild_second(c) == c = 1

\* line 14: if child == 0
IsFirstChild(c) == c = 0

\* mutant of ChildCol: the child's row looked up once, outside the loop
ChildCol_first(index, pcol) == index[0]

\* lines 16, 21: child_col = index[parent_col]
ChildCol(index, pcol) == index[pcol]

\* lines 18, 23: the element of the child's matrix the cell is combined with
ChildValue(plhs, index, pcol, mot) == plhs[ChildCol(index, pcol)][mot]

\* mutant of CellValue: the in-place multiply written as an assignment
CellValue_assign(c, old, new) == new

\* lines 18, 23: the new content of one cell; the first child assigns,
\* the later children multiply in place
CellValue(c, old, new) == IF IsFirstChild(c) THEN new ELSE FMul(old, new)

\* mutant of NextPos: the pass of a child ends after its first row
NextPos_firstrow(c, pcol, mot, height, width) ==
    IF mot + 1 < width THEN <<c, pcol, mot + 1>> ELSE <<c + 1, 0, 0>>

\* lines 9, 15/20, 17/22: the loop variables after one cell, with
\* height = index.shape[0] (line 12) and width = result.shape[1] (line 13)
NextPos(c, pcol, mot, height, width) ==
    IF mot + 1 < width THEN <<c, pcol, mot + 1>>
    ELSE IF pcol + 1 < height THEN <<c, pcol + 1, 0>>
    ELSE <<c + 1, 0, 0>>

Advance ==
    LET n == NextPos(child, parent_col, motif,
                     Len0(child_indexes[child]), Len0(result[0]))
    IN /\ child' = n[1]
       /\ parent_col' = n[2]
       /\ motif' = n[3]

\* line 18: result[parent_col, motif] = plhs[child_col, motif]
AssignCell ==
    /\ pc = "loop"
    /\ child < Len0(child_indexes)
    /\ IsFirstChild(child)
    /\ result' = [result EXCEPT ![parent_col][motif] =
           ChildValue(likelihoods[child], child_indexes[child], parent_col, motif)]
    /\ written' = written \cup {<<parent_col, motif>>}
    /\ nwrites' = Bump(nwrites, {<<parent_col, motif>>})
    /\ Advance
    /\ UNCHANGED <<argVars, pc, ret, exc, nalloc, aggVars, calls, result0,
                   staleRead, cmpVars, parVars, seqVars>>

\* line 23: result[parent_col, motif] *= plhs[child_col, motif]
MultiplyCell ==
    /\ pc = "loop"
    /\ child < Len0(child_indexes)
    /\ ~IsFirstChild(child)
    /\ result' = [result EXCEPT ![parent_col][motif] =
           FMul(@, ChildValue(likelihoods[child], child_indexes[child], parent_col, motif))]
    /\ staleRead' = (staleRead \/ <<parent_col, motif>> \notin written)
    /\ written' = written \cup {<<parent_col, motif>>}
    /\ nwrites' = Bump(nwrites, {<<parent_col, motif>>})
    /\ Advance
    /\ UNCHANGED <<argVars, pc, ret, exc, nalloc, aggVars, calls, result0,
                   cmpVars, parVars, seqVars>>

\* mutant of ReturnedArray: a copy of the buffer is returned
ReturnedArray_copy == "copy"

\* line 24: return result
ReturnedArray == "result"

Return ==
    /\ pc = "loop"
    /\ child = Len0(child_indexes)
    /\ pc' = "returned"
    /\ ret' = ReturnedArray
    /\ UNCHANGED <<argVars, result, loopVars, exc, nalloc, aggVars, histVars,
                   cmpVars, parVars, seqVars>>

\* mutant of ChildPass: the rows beyond the index map are cleared
ChildPass_clear(c, index, plhs, res) ==
    [p \in DOMAIN res |->
        IF p \in DOMAIN index
        THEN [m \in DOMAIN res[p] |-> CellValue(c, res[p][m], ChildValue(plhs, index, p, m))]
        ELSE [m \in DOMAIN res[p] |-> Zero]]

\* lines 10-23: one pass of the loop of line 9 over the whole matrix
ChildPass(c, index, plhs, res) ==
    [p \in DOMAIN res |->
        IF p \in DOMAIN index
        THEN [m \in DOMAIN res[p] |-> CellValue(c, res[p][m], ChildValue(plhs, index, p, m))]
        ELSE res[p]]

RECURSIVE PassesFrom(_, _, _, _)
PassesFrom(c, idx, res, liks) ==
    IF c >= Len0(idx) THEN res
    ELSE PassesFrom(c + 1, idx, ChildPass(c, idx[c], liks[c], res), liks)

\* lines 7-24, the call as a whole: the array it leaves in (and returns
\* as) result
sum_input_likelihoods(idx, res, liks) == PassesFrom(0, idx, res, liks)

\* ------------------------------------------------------------------------
\* get_total_log_likelihood_step1
\* ------------------------------------------------------------------------

\* lines 30-31: for i in range(len(mprobs)): res += input_likelihoods[i] * mprobs[i]
RECURSIVE Step1From(_, _, _, _)
Step1From(i, res, input_likelihoods, mp) ==
    IF i >= Len0(mp) THEN res
    ELSE Step1From(i + 1, FAdd(res, FMul(input_likelihoods[i], mp[i])),
                   input_likelihoods, mp)

\* mutant of get_total_log_likelihood_step1: the loop starts at 1
get_total_log_likelihood_step1_from1(input_likelihoods, mp) ==
    Step1From(1, Zero, input_likelihoods, mp)

\* mutant of get_total_log_likelihood_step1: a sum above 1 is clamped to 1
get_total_log_likelihood_step1_clamped(input_likelihoods, mp) ==
    LET r == Step1From(0, Zero, input_likelihoods, mp)
    IN IF ExceedsOne(r) THEN One ELSE r

\* lines 28-32, on one row of the root matrix: res = 0.0 ... return res
get_total_log_likelihood_step1(input_likelihoods, mp) ==
    Step1From(0, Zero, input_likelihoods, mp)

\* The root's driver aggregates the patterns one by one, each from its
\* row of the matrix the combiner returned, with the same motif
\* probabilities (one of mps) for every pattern.
RootAggregateFrom(mps) ==
    /\ pc = "returned"
    /\ \E mp \in mps :
          /\ mprobs = NoValue \/ mprobs = mp
          /\ mprobs' = mp
          /\ total' = [p \in Range0(Len0(total) + 1) |->
                IF p < Len0(total) THEN total[p]
                ELSE get_total_log_likelihood_step1(result[p], mp)]
    /\ pc' = IF Len0(total) + 1 = Len0(result) THEN "totals" ELSE "returned"
    /\ UNCHANGED <<argVars, result, loopVars, ret, exc, nalloc, counts, loglik,
                   histVars, cmpVars, parVars, seqVars>>

\* the caller keeps the precondition: the motif probabilities sum to 1
RootAggregate == RootAggregateFrom(MProbsFamily(Len0(result[0])))

\* ------------------------------------------------------------------------
\* get_log_sum_across_sites
\* ------------------------------------------------------------------------

\* line 37: log_lhs = numpy.log(lhs)
LogArray(lhs) == [i \in DOMAIN lhs |-> FLog(lhs[i])]

\* lines 39-40: for i in range(len(counts)): res += log_lhs[i] * counts[i]
RECURSIVE LogSumFrom(_, _, _, _)
LogSumFrom(i, res, log_lhs, cnt) ==
    IF i >= Len0(cnt) THEN res
    ELSE LogSumFrom(i + 1, FAdd(res, FMul(log_lhs[i], FromInt(cnt[i]))),
                    log_lhs, cnt)

\* mutant of get_log_sum_across_sites: the logarithm is left out
get_log_sum_across_sites_nolog(lhs, cnt) == LogSumFrom(0, Zero, lhs, cnt)

\* lines 36-41
get_log_sum_across_sites(lhs, cnt) == LogSumFrom(0, Zero, LogArray(lhs), cnt)

LogAggregate ==
    /\ pc = "totals"
    /\ \E cnt \in CountsFamily(Len0(total)) :
          /\ counts' = cnt
          /\ loglik' = get_log_sum_across_sites(total, cnt)
    /\ nalloc' = nalloc + 1
    /\ pc' = "done"
    /\ UNCHANGED <<argVars, result, loopVars, ret, exc, mprobs, total, histVars,
                   cmpVars, parVars, seqVars>>

\* ------------------------------------------------------------------------
\* The next evaluation into the same buffer
\* ------------------------------------------------------------------------

\* the position of matrix m in the family
MatIndex(m) == CHOOSE k \in 1..NumMats : MatFamily(Len0(m), Len0(m[0]))[k] = m

\* The optimisation loop evaluates again with new child matrices (the model
\* parameters changed: every child gets the next matrix of the family), the
\* same index maps and the same result buffer.
Reinvoke ==
    /\ pc = "done"
    /\ calls < MaxCalls
    /\ likelihoods' = [c \in DOMAIN likelihoods |->
          MatFamily(Len0(likelihoods[c]), Len0(likelihoods[c][0]))
              [(MatIndex(likelihoods[c]) % NumMats) + 1]]
    /\ calls' = calls + 1
    /\ pc' = "loop"
    /\ child' = 0
    /\ parent_col' = 0
    /\ motif' = 0
    /\ ret' = "none"
    /\ nalloc' = 0
    /\ mprobs' = NoValue
    /\ total' = NoValue
    /\ counts' = NoValue
    /\ loglik' = NoValue
    /\ result0' = result
    /\ written' = {}
    /\ nwrites' = <<>>
    /\ staleRead' = FALSE
    /\ UNCHANGED <<child_indexes, result, exc, cmpVars, parVars, seqVars>>

\* ------------------------------------------------------------------------
\* Spec: one node's evaluation on consistent dimensions, the combiner cell
\* by cell, then the root aggregator and the log aggregator
\* ------------------------------------------------------------------------

\* a buffer from numpy.zeros, or one holding garbage
InitialBuffers(rows, cols) == {Fill(rows, cols, Zero), Fill(rows, cols, NaN)}

InitCall ==
    /\ child = 0
    /\ parent_col = 0
    /\ motif = 0
    /\ pc = "loop"
    /\ ret = "none"
    /\ exc = "none"
    /\ nalloc = 0
    /\ mprobs = NoValue
    /\ total = NoValue
    /\ counts = NoValue
    /\ loglik = NoValue
    /\ calls = 1
    /\ result0 = result
    /\ written = {}
    /\ nwrites = <<>>
    /\ staleRead = FALSE

\* no second call, no two-level tree
InitNoCmp ==
    /\ perm = NoValue
    /\ result2 = NoValue
    /\ tree = NoValue
    /\ nodeResult = NoValue

\* no concurrent workers, no tree walk, no second log aggregation
InitNoPar ==
    /\ workers = NoValue
    /\ sharedRes = NoValue
    /\ order = NoValue
    /\ walk = NoValue
    /\ scaled = NoValue

\* no sequence method under way
InitNoSeq ==
    /\ self_seq = NoValue
    /\ other = NoValue
    /\ locals = NoValue
    /\ retval = NoValue

Init ==
    /\ \E c \in 1..MaxChildren :
          /\ likelihoods \in [Range0(c) -> {MatFamily(ChildRows, NumMotifs)[k] : k \in 1..NumMats}]
          /\ \E t \in Range0(NumMaps(ChildRows)), d \in {0, 1} :
                /\ d = 1 \/ t = 0
                /\ child_indexes = MapTuple(c, NumPatterns, ChildRows, t, d)
    /\ result \in InitialBuffers(NumPatterns, NumMotifs)
    /\ InitCall
    /\ InitNoCmp
    /\ InitNoPar
    /\ InitNoSeq

Next ==
    \/ AssignCell
    \/ MultiplyCell
    \/ Return
    \/ RootAggregate
    \/ LogAggregate
    \/ Reinvoke

Spec == Init /\ [][Next]_vars

\* ------------------------------------------------------------------------
\* SpecShape: the combiner alone, on arguments whose dimensions disagree
\* while every index stays inside its array: one matrix more than there are
\* index maps, a result buffer with one row more than the maps are long,
\* child matrices with one motif column more than the result.  (Arguments
\* that make an index leave its array are not modelled.)
\* ------------------------------------------------------------------------

\* the dimensions the Node Combiner's contract asks to agree
DimsConsistent ==
    /\ Len0(likelihoods) = Len0(child_indexes)
    /\ \A c \in DOMAIN child_indexes : Len0(child_indexes[c]) = Len0(result)
    /\ \A c \in DOMAIN likelihoods : Len0(likelihoods[c][0]) = Len0(result[0])

InitShape ==
    /\ \E c \in 1..MaxChildren, extra \in {0, 1}, cols \in {NumMotifs, NumMotifs + 1} :
          /\ likelihoods \in [Range0(c + extra) ->
                                {MatFamily(ChildRows, cols)[k] : k \in 1..NumMats}]
          /\ child_indexes = MapTuple(c, NumPatterns, ChildRows, 0, 1)
    /\ \E rows \in {NumPatterns, NumPatterns + 1} :
          result = Fill(rows, NumMotifs, Zero)
    /\ InitCall
    /\ InitNoCmp
    /\ InitNoPar
    /\ InitNoSeq

NextShape == AssignCell \/ MultiplyCell \/ Return

SpecShape == InitShape /\ [][NextShape]_vars

\* ------------------------------------------------------------------------
\* SpecPermute: one node combined twice, each call as a whole, the second
\* time with its children (matrices and index maps together) permuted
\* ------------------------------------------------------------------------

\* the array with the elements of a sequence
Arr(seq) == [i \in Range0(Len(seq)) |-> seq[i + 1]]

ChildOrders(n) ==
    {q \in [Range0(n) -> Range0(n)] : \A i, j \in Range0(n) : q[i] = q[j] => i = j}

Permuted(a, q) == [i \in DOMAIN q |-> a[q[i]]]

Combine ==
    /\ pc = "start"
    /\ result' = sum_input_likelihoods(child_indexes, result, likelihoods)
    /\ ret' = ReturnedArray
    /\ pc' = "combined"
    /\ UNCHANGED <<argVars, loopVars, exc, nalloc, aggVars, histVars, cmpVars, parVars, seqVars>>

CombinePermuted ==
    /\ pc = "combined"
    /\ \E q \in ChildOrders(Len0(child_indexes)) :
          /\ perm' = q
          /\ result2' = sum_input_likelihoods(Permuted(child_indexes, q), result2,
                                              Permuted(likelihoods, q))
    /\ pc' = "compared"
    /\ UNCHANGED <<argVars, result, loopVars, ret, exc, nalloc, aggVars, histVars,
                   tree, nodeResult, parVars, seqVars>>

InitFunctional ==
    /\ child = 0
    /\ parent_col = 0
    /\ motif = 0
    /\ pc = "start"
    /\ ret = "none"
    /\ exc = "none"
    /\ nalloc = 0
    /\ mprobs = NoValue
    /\ total = NoValue
    /\ counts = NoValue
    /\ loglik = NoValue
    /\ calls = 1
    /\ result0 = result
    /\ written = {}
    /\ nwrites = <<>>
    /\ staleRead = FALSE

\* the entry of a call, wherever the model's pc stands
InitEntry ==
    /\ child = 0
    /\ parent_col = 0
    /\ motif = 0
    /\ ret = "none"
    /\ exc = "none"
    /\ nalloc = 0
    /\ mprobs = NoValue
    /\ total = NoValue
    /\ counts = NoValue
    /\ loglik = NoValue
    /\ calls = 1
    /\ result0 = result
    /\ written = {}
    /\ nwrites = <<>>
    /\ staleRead = FALSE

InitPermute ==
    /\ \E c \in 2..PermChildren :
          /\ likelihoods \in [Range0(c) -> {MatFamily(ChildRows, NumMotifs)[k] : k \in 1..NumMats}]
          /\ \E t \in Range0(NumMaps(ChildRows)) :
                child_indexes = MapTuple(c, NumPatterns, ChildRows, t, 1)
    /\ result = Fill(NumPatterns, NumMotifs, Zero)
    /\ result2 = Fill(NumPatterns, NumMotifs, Zero)
    /\ perm = NoValue
    /\ tree = NoValue
    /\ nodeResult = NoValue
    /\ InitNoPar
    /\ InitFunctional
    /\ InitNoSeq

NextPermute == Combine \/ CombinePermuted

SpecPermute == InitPermute /\ [][NextPermute]_vars

\* ------------------------------------------------------------------------
\* SpecRefactor: three leaves, likelihoods[0] and likelihoods[1] under an
\* internal node, likelihoods[2] under the root beside that node; the root
\* matrix by two calls (node, then root) and by one call on the three
\* leaves with the composed index maps.  No branch transform in between.
\* ------------------------------------------------------------------------

\* root pattern -> node pattern -> leaf row
Compose(leafMap, nodeMap) == [p \in DOMAIN nodeMap |-> leafMap[nodeMap[p]]]

\* the index maps of the one direct call: leaves in tree order
EffectiveMaps(t) ==
    Arr(<<Compose(t.nodeIndexes[0], t.rootToNode),
          Compose(t.nodeIndexes[1], t.rootToNode),
          t.rootToLeaf>>)

CombineNode ==
    /\ pc = "start"
    /\ nodeResult' = sum_input_likelihoods(tree.nodeIndexes, nodeResult,
                         Arr(<<likelihoods[0], likelihoods[1]>>))
    /\ pc' = "node"
    /\ UNCHANGED <<argVars, result, loopVars, ret, exc, nalloc, aggVars, histVars,
                   perm, result2, tree, parVars, seqVars>>

CombineRoot ==
    /\ pc = "node"
    /\ result' =
          IF tree.nodeFirst
          THEN sum_input_likelihoods(Arr(<<tree.rootToNode, tree.rootToLeaf>>), result,
                                     Arr(<<nodeResult, likelihoods[2]>>))
          ELSE sum_input_likelihoods(Arr(<<tree.rootToLeaf, tree.rootToNode>>), result,
                                     Arr(<<likelihoods[2], nodeResult>>))
    /\ ret' = ReturnedArray
    /\ pc' = "root"
    /\ UNCHANGED <<argVars, loopVars, exc, nalloc, aggVars, histVars, cmpVars, parVars, seqVars>>

CombineDirect ==
    /\ pc = "root"
    /\ result2' = sum_input_likelihoods(child_indexes, result2, likelihoods)
    /\ pc' = "compared"
    /\ UNCHANGED <<argVars, result, loopVars, ret, exc, nalloc, aggVars, histVars,
                   perm, tree, nodeResult, parVars, seqVars>>

InitRefactor ==
    /\ likelihoods \in [Range0(3) -> {MatFamily(ChildRows, NumMotifs)[k] : k \in 1..NumMats}]
    /\ \E t \in {0, 1}, k \in Range0(NumPatterns + 1), j \in {0, 1}, b \in BOOLEAN :
          tree = [nodeIndexes |-> MapTuple(2, NumPatterns, ChildRows, t, 1),
                  rootToNode |-> MapFamily(NumPatterns, NumPatterns, k),
                  rootToLeaf |-> MapFamily(NumPatterns, ChildRows, j),
                  nodeFirst |-> b]
    /\ child_indexes = EffectiveMaps(tree)
    /\ nodeResult = Fill(NumPatterns, NumMotifs, Zero)
    /\ result = Fill(NumPatterns, NumMotifs, Zero)
    /\ result2 = Fill(NumPatterns, NumMotifs, Zero)
    /\ perm = NoValue
    /\ InitNoPar
    /\ InitFunctional
    /\ InitNoSeq

NextRefactor == CombineNode \/ CombineRoot \/ CombineDirect

SpecRefactor == InitRefactor /\ [][NextRefactor]_vars

\* ------------------------------------------------------------------------
\* SpecConcurrent: two calls of sum_input_likelihoods on the same
\* child_indexes and likelihoods, running at once and interleaved cell by
\* cell.  The first call is the one of Spec (AssignCell, MultiplyCell,
\* Return); the second call has its local variables in workers[2] and is
\* handed either a buffer of its own (result2) or, aliased, the first
\* call's buffer.
\* ------------------------------------------------------------------------

\* the array the second call's parameter result is bound to
Buffer2 == IF workers[2].buffer = "result" THEN result ELSE result2

\* lines 18, 23 in the second call
CellStep2 ==
    LET w == workers[2]
        v == CellValue(w.child, Buffer2[w.parent_col][w.motif],
                 ChildValue(likelihoods[w.child], child_indexes[w.child],
                            w.parent_col, w.motif))
        n == NextPos(w.child, w.parent_col, w.motif,
                     Len0(child_indexes[w.child]), Len0(Buffer2[0]))
    IN /\ w.pc = "loop"
       /\ w.child < Len0(child_indexes)
       /\ IF w.buffer = "result"
          THEN /\ result' = [result EXCEPT ![w.parent_col][w.motif] = v]
               /\ UNCHANGED result2
          ELSE /\ result2' = [result2 EXCEPT ![w.parent_col][w.motif] = v]
               /\ UNCHANGED result
       /\ workers' = [workers EXCEPT ![2] =
              [w EXCEPT !.child = n[1], !.parent_col = n[2], !.motif = n[3],
                        !.overlapped = (@ \/ (pc = "loop" /\ written # {}))]]
       /\ UNCHANGED <<argVars, loopVars, pc, ret, exc, nalloc, aggVars, histVars,
                      perm, tree, nodeResult, sharedRes, order, walk, scaled, seqVars>>

\* line 24 in the second call
Return2 ==
    /\ workers[2].pc = "loop"
    /\ workers[2].child = Len0(child_indexes)
    /\ workers' = [workers EXCEPT ![2].pc = "returned", ![2].ret = ReturnedArray]
    /\ UNCHANGED <<argVars, result, loopVars, pc, ret, exc, nalloc, aggVars,
                   histVars, cmpVars, sharedRes, order, walk, scaled, seqVars>>

\* child i gets matrix k + i of the family
MatTuple(c, rows, cols, k) ==
    [i \in Range0(c) |-> MatFamily(rows, cols)[((k + i) % NumMats) + 1]]

InitConcurrent ==
    /\ \E c \in 1..MaxChildren, k \in Range0(NumMats), t \in Range0(NumMaps(ChildRows)) :
          /\ likelihoods = MatTuple(c, ChildRows, NumMotifs, k)
          /\ child_indexes = MapTuple(c, NumPatterns, ChildRows, t, 1)
    /\ result \in InitialBuffers(NumPatterns, NumMotifs)
    /\ \E b \in {"result", "result2"} :
          /\ b = "result" =>
                /\ Len0(child_indexes) = 2
                /\ child_indexes = MapTuple(2, NumPatterns, ChildRows, 0, 1)
                /\ likelihoods = MatTuple(2, ChildRows, NumMotifs, 3)
          /\ result2 = IF b = "result" THEN NoValue
                       ELSE Fill(NumPatterns, NumMotifs, NaN)
          /\ workers = (2 :> [child |-> 0, parent_col |-> 0, motif |-> 0,
                              pc |-> "loop", ret |-> "none", buffer |-> b,
                              result0 |-> IF b = "result" THEN result ELSE result2,
                              overlapped |-> FALSE])
    /\ perm = NoValue
    /\ tree = NoValue
    /\ nodeResult = NoValue
    /\ sharedRes = NoValue
    /\ order = NoValue
    /\ walk = NoValue
    /\ scaled = NoValue
    /\ InitCall
    /\ InitNoSeq

NextConcurrent == AssignCell \/ MultiplyCell \/ Return \/ CellStep2 \/ Return2

SpecConcurrent == InitConcurrent /\ [][NextConcurrent]_vars

\* ------------------------------------------------------------------------
\* SpecRows: the loop nest of sum_input_likelihoods carried out by
\* NumWorkers workers on one result buffer.  Every parent row belongs to one
\* worker; a worker runs the loops of lines 9-23 with parent_col ranging
\* over its own rows only, and the workers' cell updates interleave freely.
\* (The workers are interchangeable: row 0 is given to worker 1.)
\* ------------------------------------------------------------------------

\* the rows owned by worker w, ascending, as the worker's range
RowsOf(owner, w) ==
    LET own == {p \in DOMAIN owner : owner[p] = w}
        RECURSIVE Asc(_)
        Asc(rest) == IF rest = {} THEN <<>>
                     ELSE LET lo == CHOOSE x \in rest : \A y \in rest : x <= y
                          IN <<lo>> \o Asc(rest \ {lo})
    IN Asc(own)

\* a worker has cells left to update
Working(w) == Len(w.rows) > 0 /\ w.child < Len0(child_indexes)

\* lines 18, 23 by worker i on the cell its loop variables point to: the
\* cell is read and written in one step (no other worker has this row)
RowWorkerStep(i) ==
    LET w == workers[i]
        pcol == w.rows[w.k]
        v == CellValue(w.child, result[pcol][w.motif],
                 ChildValue(likelihoods[w.child], child_indexes[w.child], pcol, w.motif))
        n == NextPos(w.child, w.k - 1, w.motif, Len(w.rows), Len0(result[0]))
    IN /\ pc = "rows"
       /\ Working(w)
       /\ result' = [result EXCEPT ![pcol][w.motif] = v]
       /\ workers' = [workers EXCEPT ![i] =
              [w EXCEPT !.child = n[1], !.k = n[2] + 1, !.motif = n[3],
                        !.ahead = (@ \/ (w.child >= 1 /\ \E j \in DOMAIN workers :
                                           Working(workers[j]) /\ workers[j].child = 0))]]
       /\ UNCHANGED <<argVars, loopVars, pc, ret, exc, nalloc, aggVars, histVars,
                      cmpVars, sharedRes, order, walk, scaled, seqVars>>

\* line 24, once every worker is through
JoinRows ==
    /\ pc = "rows"
    /\ \A i \in DOMAIN workers : ~Working(workers[i])
    /\ pc' = "joined"
    /\ ret' = ReturnedArray
    /\ UNCHANGED <<argVars, result, loopVars, exc, nalloc, aggVars, histVars,
                   cmpVars, parVars, seqVars>>

InitRows ==
    /\ \E k \in {0, NumMats - 2}, t \in {0, 1} :
          /\ likelihoods = MatTuple(MaxChildren, ChildRows, NumMotifs, k)
          /\ child_indexes = MapTuple(MaxChildren, NumPatterns, ChildRows, t, 1)
    /\ result = Fill(NumPatterns, NumMotifs, NaN)
    /\ \E owner \in [Range0(NumPatterns) -> 1..NumWorkers] :
          /\ owner[0] = 1
          /\ workers = [i \in 1..NumWorkers |->
                           [rows |-> RowsOf(owner, i), child |-> 0, k |-> 1, motif |-> 0,
                            ahead |-> FALSE]]
    /\ sharedRes = NoValue
    /\ order = NoValue
    /\ walk = NoValue
    /\ scaled = NoValue
    /\ InitNoCmp
    /\ InitEntry
    /\ pc = "rows"
    /\ InitNoSeq

NextRows == (\E i \in 1..NumWorkers : RowWorkerStep(i)) \/ JoinRows

SpecRows == InitRows /\ [][NextRows]_vars

\* ------------------------------------------------------------------------
\* SpecReduce: the loop of get_total_log_likelihood_step1 (lines 30-31) or
\* of get_log_sum_across_sites (lines 39-40) with its iterations handed to
\* threads.  All iterations accumulate into the one local res; an
\* iteration loads res, adds its term and stores res, and the loads and
\* stores of different iterations interleave freely.
\* ------------------------------------------------------------------------

\* per-pattern likelihoods as the root aggregator makes them: in (0, 1]
\* (graded, halved from pattern to pattern, 3/4 throughout), and one array
\* with a pattern of likelihood 0
TotalsFamily(n) ==
    {[p \in Range0(n) |-> Grades[(p % 3) + 1]],
     [p \in Range0(n) |-> Grades[((p + 1) % 3) + 1]],
     [p \in Range0(n) |-> Round(1, 0 - (p + 1))],
     [p \in Range0(n) |-> Round(3, 0 - 2)],
     [p \in Range0(n) |-> IF p = 0 THEN Zero ELSE Grades[(p % 3) + 1]]}

\* line 31: input_likelihoods[i] * mprobs[i]
Step1Term(input_likelihoods, mp, i) == FMul(input_likelihoods[i], mp[i])

\* mutant of LogTerm: the count left out
LogTerm_nocount(log_lhs, cnt, i) == log_lhs[i]

\* line 40: log_lhs[i] * counts[i]
LogTerm(log_lhs, cnt, i) == FMul(log_lhs[i], FromInt(cnt[i]))

\* the terms of the loop that is being run
Terms ==
    IF counts # NoValue
    THEN [i \in DOMAIN counts |-> LogTerm(LogArray(total), counts, i)]
    ELSE [i \in DOMAIN mprobs |-> Step1Term(result[0], mprobs, i)]

\* mutant of Accumulate: = written for +=
Accumulate_overwrite(r, term) == term

\* lines 31, 40: res += term
Accumulate(r, term) == FAdd(r, term)

\* an iteration reads res
LoadRes(i) ==
    /\ pc = "reduce"
    /\ workers[i].state = "todo"
    /\ workers' = [workers EXCEPT ![i] =
          [@ EXCEPT !.state = "loaded", !.seen = sharedRes, !.at = Len(order)]]
    /\ UNCHANGED <<argVars, result, loopVars, pc, ret, exc, nalloc, aggVars,
                   histVars, cmpVars, sharedRes, order, walk, scaled, seqVars>>

\* the iteration writes res; an update made since its read is lost
StoreRes(i) ==
    /\ pc = "reduce"
    /\ workers[i].state = "loaded"
    /\ sharedRes' = Accumulate(workers[i].seen, Terms[i])
    /\ order' = Append(order, i)
    /\ workers' = [workers EXCEPT ![i] =
          [@ EXCEPT !.state = "done", !.lost = (workers[i].at # Len(order))]]
    /\ UNCHANGED <<argVars, result, loopVars, pc, ret, exc, nalloc, aggVars,
                   histVars, cmpVars, walk, scaled, seqVars>>

\* lines 32, 41: return res
ReturnRes ==
    /\ pc = "reduce"
    /\ \A i \in DOMAIN workers : workers[i].state = "done"
    /\ pc' = "reduced"
    /\ UNCHANGED <<argVars, result, loopVars, ret, exc, nalloc, aggVars, histVars,
                   cmpVars, parVars, seqVars>>

InitReduce ==
    /\ \/ /\ \E k \in 1..NumMats : result = MatFamily(1, NumMotifs)[k]
          /\ mprobs \in MProbsFamily(NumMotifs)
          /\ total = NoValue
          /\ counts = NoValue
          /\ workers = [i \in Range0(NumMotifs) |->
                           [state |-> "todo", seen |-> NoValue, at |-> 0, lost |-> FALSE]]
       \/ /\ result = NoValue
          /\ mprobs = NoValue
          /\ total \in TotalsFamily(NumPatterns)
          /\ counts \in CountsFamily(NumPatterns)
          /\ workers = [i \in Range0(NumPatterns) |->
                           [state |-> "todo", seen |-> NoValue, at |-> 0, lost |-> FALSE]]
    /\ sharedRes = Zero
    /\ order = <<>>
    /\ pc = "reduce"
    /\ child_indexes = NoValue
    /\ likelihoods = NoValue
    /\ child = 0
    /\ parent_col = 0
    /\ motif = 0
    /\ ret = "none"
    /\ exc = "none"
    /\ nalloc = 0
    /\ loglik = NoValue
    /\ calls = 1
    /\ result0 = result
    /\ written = {}
    /\ nwrites = <<>>
    /\ staleRead = FALSE
    /\ walk = NoValue
    /\ scaled = NoValue
    /\ InitNoCmp
    /\ InitNoSeq

NextReduce ==
    \/ \E i \in DOMAIN workers : LoadRes(i)
    \/ \E i \in DOMAIN workers : StoreRes(i)
    \/ ReturnRes

SpecReduce == InitReduce /\ [][NextReduce]_vars

\* ------------------------------------------------------------------------
\* SpecSiblings: the passes of the loop of line 9 run side by side, one
\* worker per child, on the one result buffer.  Worker c carries out lines
\* 10-23 for child c (child 0 assigns, the others multiply in place).  A
\* step is one parent row (the inner loop of lines 17-18 or 22-23); the
\* workers' steps interleave freely, so every cell sees the children's
\* updates in every order.
\* ------------------------------------------------------------------------

\* lines 16-18, 21-23 by the worker of child c, on its next parent row
SiblingStep(c) ==
    LET w == workers[c]
        pcol == w.parent_col
    IN /\ pc = "siblings"
       /\ ~w.done
       /\ result' = [result EXCEPT ![pcol] = [m \in DOMAIN result[pcol] |->
              CellValue(c, result[pcol][m],
                  ChildValue(likelihoods[c], child_indexes[c], pcol, m))]]
       /\ staleRead' = (staleRead \/
              (~IsFirstChild(c) /\ \E m \in DOMAIN result[pcol] : <<pcol, m>> \notin written))
       /\ written' = IF IsFirstChild(c)
                     THEN written \cup {<<pcol, m>> : m \in DOMAIN result[pcol]}
                     ELSE written
       /\ nwrites' = Bump(nwrites, {<<pcol, m>> : m \in DOMAIN result[pcol]})
       /\ workers' = [workers EXCEPT ![c] =
              [w EXCEPT !.parent_col = pcol + 1,
                        !.done = (pcol + 1 >= Len0(child_indexes[c]))]]
       /\ UNCHANGED <<argVars, loopVars, pc, ret, exc, nalloc, aggVars, calls, result0,
                      cmpVars, sharedRes, order, walk, scaled, seqVars>>

\* line 24, once every child's pass is over
JoinSiblings ==
    /\ pc = "siblings"
    /\ \A c \in DOMAIN workers : workers[c].done
    /\ pc' = "joined"
    /\ ret' = ReturnedArray
    /\ UNCHANGED <<argVars, result, loopVars, exc, nalloc, aggVars, histVars,
                   cmpVars, parVars, seqVars>>

InitSiblings ==
    /\ \E c \in 2..PermChildren, j \in {0, 1}, t \in {0, 1} :
          /\ likelihoods = [i \in Range0(c) |->
                MatFamily(ChildRows, NumMotifs)[NumMats - ((i + j) % 2)]]
          /\ child_indexes = MapTuple(c, NumPatterns, ChildRows, t, 1)
          /\ workers = [i \in Range0(c) |-> [parent_col |-> 0, done |-> FALSE]]
    /\ result = Fill(NumPatterns, NumMotifs, Zero)
    /\ sharedRes = NoValue
    /\ order = NoValue
    /\ walk = NoValue
    /\ scaled = NoValue
    /\ InitNoCmp
    /\ InitEntry
    /\ pc = "siblings"
    /\ InitNoSeq

NextSiblings == (\E c \in DOMAIN workers : SiblingStep(c)) \/ JoinSiblings

SpecSiblings == InitSiblings /\ [][NextSiblings]_vars

\* ------------------------------------------------------------------------
\* SpecWalk: the Tree Walker.  One bottom-up pass over a rooted tree: a
\* leaf's matrix comes from the Leaf Likelihood Source and is transformed
\* by its branch matrix; an internal node whose children are all
\* transformed calls the Node Combiner on their transformed matrices and,
\* unless it is the root, applies its own branch transform.  Nodes that are
\* ready are processed in any order.  Nodes are numbered; tree.parent[n] is
\* the parent of n, tree.root the root.
\* ------------------------------------------------------------------------

TreeNodes(t) == DOMAIN t.parent \cup {t.root}

Children(t, n) == {c \in DOMAIN t.parent : t.parent[c] = n}

IsLeaf(t, n) == Children(t, n) = {}

\* the children of n in the order the combiner takes them: ascending
ChildSeq(t, n) ==
    LET RECURSIVE Asc(_)
        Asc(rest) == IF rest = {} THEN <<>>
                     ELSE LET lo == CHOOSE x \in rest : \A y \in rest : x <= y
                          IN <<lo>> \o Asc(rest \ {lo})
    IN Asc(Children(t, n))

\* transformed[p, m] = sum over n of mat[p, n] * P[m, n], n = 0 first
BranchTransform(mat, P) ==
    LET RECURSIVE Dot(_, _, _)
        Dot(row, prow, k) ==
            IF k = 0 THEN Zero
            ELSE FAdd(Dot(row, prow, k - 1), FMul(row[k - 1], prow[k - 1]))
    IN [p \in DOMAIN mat |-> [m \in DOMAIN P |-> Dot(mat[p], P[m], Len0(P[m]))]]

\* branch matrices: the identity, and one that keeps a motif with
\* probability 1/2
BranchFamily(k) ==
    <<[m \in Range0(k) |-> [n \in Range0(k) |-> IF m = n THEN One ELSE Zero]],
      [m \in Range0(k) |-> [n \in Range0(k) |->
          IF m = n THEN Round(1, 0 - 1) ELSE Round(1, 1 - k)]]>>

\* mutant of Ready: one transformed child is enough
Ready_any(t, n) == \E c \in Children(t, n) : walk[c].state = "exposed"

\* an internal node is processed once all its children are transformed
Ready(t, n) == \A c \in Children(t, n) : walk[c].state = "exposed"

\* mutant of Exposed: the parent is shown the untransformed matrix
Exposed_raw(n) == walk[n].raw

\* the matrix of node n that its parent reads
Exposed(n) == walk[n].out

TransformLeaf(n) ==
    /\ pc = "walk"
    /\ IsLeaf(tree, n)
    /\ walk[n].state = "pending"
    /\ walk' = [walk EXCEPT ![n] =
          [state |-> "exposed", raw |-> likelihoods[n],
           out |-> BranchTransform(likelihoods[n], tree.branch[n]),
           inputs |-> NoValue]]
    /\ order' = Append(order, <<"transform", n>>)
    /\ UNCHANGED <<argVars, result, loopVars, pc, ret, exc, nalloc, aggVars,
                   histVars, cmpVars, workers, sharedRes, scaled, seqVars>>

CombineAt(n) ==
    /\ pc = "walk"
    /\ ~IsLeaf(tree, n)
    /\ walk[n].state = "pending"
    /\ Ready(tree, n)
    /\ LET cs == ChildSeq(tree, n)
           ins == [i \in Range0(Len(cs)) |-> Exposed(cs[i + 1])]
           maps == [i \in Range0(Len(cs)) |-> tree.map[cs[i + 1]]]
           raw == sum_input_likelihoods(maps, walk[n].raw, ins)
       IN /\ walk' = [walk EXCEPT ![n] =
                 [@ EXCEPT !.state = "combined", !.raw = raw, !.inputs = ins]]
          /\ IF n = tree.root
             THEN result' = raw /\ pc' = "walked" /\ ret' = ReturnedArray
             ELSE UNCHANGED <<result, pc, ret>>
    /\ order' = Append(order, <<"combine", n>>)
    /\ UNCHANGED <<argVars, loopVars, exc, nalloc, aggVars, histVars, cmpVars,
                   workers, sharedRes, scaled, seqVars>>

TransformNode(n) ==
    /\ pc = "walk"
    /\ n # tree.root
    /\ walk[n].state = "combined"
    /\ walk' = [walk EXCEPT ![n] =
          [@ EXCEPT !.state = "exposed",
                    !.out = BranchTransform(walk[n].raw, tree.branch[n])]]
    /\ order' = Append(order, <<"transform", n>>)
    /\ UNCHANGED <<argVars, result, loopVars, pc, ret, exc, nalloc, aggVars,
                   histVars, cmpVars, workers, sharedRes, scaled, seqVars>>

\* two shapes on leaves 0, 1, 2 and root 4: leaves 0 and 1 under the
\* internal node 3 with leaf 2 beside it, or the three leaves under the root
TreeShapes ==
    {(0 :> 3 @@ 1 :> 3 @@ 2 :> 4 @@ 3 :> 4),
     (0 :> 4 @@ 1 :> 4 @@ 2 :> 4)}

InitWalk ==
    /\ \E k \in Range0(NumMats) : likelihoods = MatTuple(3, ChildRows, NumMotifs, k)
    /\ \E par \in TreeShapes, b \in {0, 1}, j \in Range0(NumPatterns) :
          tree = [parent |-> par,
                  root |-> 4,
                  map |-> [n \in DOMAIN par |->
                      IF n = 3 THEN MapFamily(NumPatterns, NumPatterns, j)
                      ELSE MapFamily(NumPatterns, ChildRows, n)],
                  branch |-> [n \in DOMAIN par |->
                      BranchFamily(NumMotifs)[((n + b) % 2) + 1]]]
    /\ walk = [n \in TreeNodes(tree) |->
                  [state |-> "pending",
                   raw |-> Fill(IF n >= 3 THEN NumPatterns ELSE ChildRows, NumMotifs, NaN),
                   out |-> Fill(IF n >= 3 THEN NumPatterns ELSE ChildRows, NumMotifs, NaN),
                   inputs |-> NoValue]]
    /\ order = <<>>
    /\ child_indexes = NoValue
    /\ result = Fill(NumPatterns, NumMotifs, NaN)
    /\ perm = NoValue
    /\ result2 = NoValue
    /\ nodeResult = NoValue
    /\ workers = NoValue
    /\ sharedRes = NoValue
    /\ scaled = NoValue
    /\ InitEntry
    /\ pc = "walk"
    /\ InitNoSeq

NextWalk ==
    \/ \E n \in TreeNodes(tree) : TransformLeaf(n)
    \/ \E n \in TreeNodes(tree) : CombineAt(n)
    \/ \E n \in TreeNodes(tree) : TransformNode(n)

SpecWalk == InitWalk /\ [][NextWalk]_vars

\* ------------------------------------------------------------------------
\* SpecPipeline: the three kernels in sequence on a root whose children
\* are leaves with identity branch matrices (the children's matrices are
\* the leaf matrices themselves) and share the root's pattern table: 1 to
\* NumPatterns patterns, child matrices with as many rows, 1 to
\* PermChildren children, every index map a rotation (the identity among
\* them) or constant.
\* ------------------------------------------------------------------------

InitPipeline ==
    /\ \E c \in 1..PermChildren, n \in 1..NumPatterns :
          /\ \E k \in Range0(NumMats), same \in BOOLEAN :
                likelihoods = IF same
                              THEN [i \in Range0(c) |-> MatFamily(n, NumMotifs)[k + 1]]
                              ELSE MatTuple(c, n, NumMotifs, k)
          /\ \E t \in Range0(NumMaps(n)), d \in {0, 1} :
                /\ d = 1 \/ t = 0
                /\ child_indexes = MapTuple(c, n, n, t, d)
          /\ result = Fill(n, NumMotifs, Zero)
    /\ InitCall
    /\ InitNoCmp
    /\ InitNoPar
    /\ InitNoSeq

NextPipeline ==
    \/ AssignCell
    \/ MultiplyCell
    \/ Return
    \/ RootAggregate
    \/ LogAggregate

SpecPipeline == InitPipeline /\ [][NextPipeline]_vars

\* ------------------------------------------------------------------------
\* SpecFrame: the combiner on a buffer that may have one row more than the
\* index maps are long, for zero to MaxChildren children, the buffer
\* zeroed or holding garbage; the call is taken cell by cell (pc = "loop")
\* or as a whole (pc = "start").
\* ------------------------------------------------------------------------

InitFrame ==
    /\ \E c \in 0..MaxChildren :
          /\ likelihoods \in [Range0(c) -> {MatFamily(ChildRows, NumMotifs)[k] : k \in 1..NumMats}]
          /\ \E t \in {0, 1} : child_indexes = MapTuple(c, NumPatterns, ChildRows, t, 1)
    /\ \E rows \in {NumPatterns, NumPatterns + 1} :
          result \in InitialBuffers(rows, NumMotifs)
    /\ pc \in {"loop", "start"}
    /\ InitEntry
    /\ InitNoCmp
    /\ InitNoPar
    /\ InitNoSeq

NextFrame == AssignCell \/ MultiplyCell \/ Return \/ Combine

SpecFrame == InitFrame /\ [][NextFrame]_vars

\* ------------------------------------------------------------------------
\* SpecLoop: the pipeline with the combiner's loop running on: the call is
\* straight-line code on one thread, so a step that can be taken is taken.
\* ------------------------------------------------------------------------

SpecLoop == SpecPipeline /\ WF_vars(AssignCell \/ MultiplyCell \/ Return)

\* ------------------------------------------------------------------------
\* SpecScale: get_log_sum_across_sites called on the same likelihoods
\* twice, the second time with the count of one pattern multiplied by a
\* factor.  scaled keeps the second call: the pattern p, the factor f, the
\* counts, the loop's addends (terms; terms0 for the first call) and the
\* value returned.
\* ------------------------------------------------------------------------

ScaleCount ==
    /\ pc = "done"
    /\ \E p \in DOMAIN counts, f \in 1..MaxFactor :
          LET cnt == [counts EXCEPT ![p] = f * counts[p]]
          IN scaled' = [p |-> p, f |-> f, counts |-> cnt,
                        terms0 |-> [i \in DOMAIN counts |->
                                       LogTerm(LogArray(total), counts, i)],
                        terms |-> [i \in DOMAIN cnt |-> LogTerm(LogArray(total), cnt, i)],
                        loglik |-> get_log_sum_across_sites(total, cnt)]
    /\ pc' = "scaled"
    /\ UNCHANGED <<argVars, result, loopVars, ret, exc, nalloc, aggVars, histVars,
                   cmpVars, workers, sharedRes, order, walk, seqVars>>

InitScale ==
    /\ total \in TotalsFamily(NumPatterns)
    /\ pc = "totals"
    /\ child_indexes = NoValue
    /\ likelihoods = NoValue
    /\ result = NoValue
    /\ mprobs = NoValue
    /\ counts = NoValue
    /\ loglik = NoValue
    /\ child = 0
    /\ parent_col = 0
    /\ motif = 0
    /\ ret = "none"
    /\ exc = "none"
    /\ nalloc = 0
    /\ calls = 1
    /\ result0 = NoValue
    /\ written = {}
    /\ nwrites = <<>>
    /\ staleRead = FALSE
    /\ InitNoCmp
    /\ InitNoPar
    /\ InitNoSeq

NextScale == LogAggregate \/ ScaleCount

SpecScale == InitScale /\ [][NextScale]_vars

\* ------------------------------------------------------------------------
\* SpecDistribution: the root aggregator, then the log aggregator, on a
\* root matrix and motif probabilities that the caller may have left
\* unnormalised: they sum to 1, to more, to less or to 0.
\* ------------------------------------------------------------------------

\* motif probabilities as a caller may pass them: the distributions, and
\* vectors summing to k, 0, 1/2 and 3/2
MProbsAny(k) ==
    MProbsFamily(k) \cup
    {[m \in Range0(k) |-> One],
     [m \in Range0(k) |-> Zero],
     [m \in Range0(k) |-> IF m = 0 THEN Round(1, 0 - 1) ELSE Zero],
     [m \in Range0(k) |-> IF m < 2 THEN Round(3, 0 - 2) ELSE Zero]}

RootAggregateAny == RootAggregateFrom(MProbsAny(Len0(result[0])))

InitDistribution ==
    /\ result \in {MatFamily(NumPatterns, NumMotifs)[k] : k \in 1..NumMats}
    /\ pc = "returned"
    /\ ret = ReturnedArray
    /\ child_indexes = NoValue
    /\ likelihoods = NoValue
    /\ mprobs = NoValue
    /\ total = NoValue
    /\ counts = NoValue
    /\ loglik = NoValue
    /\ child = 0
    /\ parent_col = 0
    /\ motif = 0
    /\ exc = "none"
    /\ nalloc = 0
    /\ calls = 1
    /\ result0 = NoValue
    /\ written = {}
    /\ nwrites = <<>>
    /\ staleRead = FALSE
    /\ InitNoCmp
    /\ InitNoPar
    /\ InitNoSeq

NextDistribution == RootAggregateAny \/ LogAggregate

SpecDistribution == InitDistribution /\ [][NextDistribution]_vars

\* ------------------------------------------------------------------------
\* Sequences (src/cogent3/core/sequence.py).  A Sequence holds a string,
\* here an array of characters; a ModelSequence holds an array of indices
\* into its Alphabet.
\* ------------------------------------------------------------------------

\* the kernels' variables, which no sequence method touches
kernelVars == <<argVars, result, loopVars, ret, nalloc, aggVars, histVars, cmpVars, parVars>>

\* Python's None (the empty array is a value of its own)
None == "None"

\* two bases, a base in lower case, the gap and the missing character
Chars == {"A", "C", "a", "-", "?"}

\* line 413: self.MolType.Gaps, the gap and the missing character
Gaps == {"-", "?"}

\* line 486: self.MolType.Missing
Missing == "?"

\* every array of at most n elements of a set
Arrays(elems, n) == UNION {[Range0(k) -> elems] : k \in 0..n}

\* s[a:b] on a string, 0 <= a
Slice(s, a, b) ==
    LET hi == Min(b, Len0(s))
    IN [i \in Range0(IF hi > a THEN hi - a ELSE 0) |-> s[a + i]]

\* a * n on a one-character string
Repeat(ch, n) == [i \in Range0(n) |-> ch]

\* a + b on strings
Concat(a, b) ==
    [i \in Range0(Len0(a) + Len0(b)) |-> IF i < Len0(a) THEN a[i] ELSE b[i - Len0(a)]]

\* line 529: Seq.upper()
Upper(ch) == IF ch = "a" THEN "A" ELSE ch

\* lines 503-530, Sequence.__init__ with its defaults (preserve_case is
\* False): the string it keeps in _seq
SequenceNew(chars) == [i \in DOMAIN chars |-> Upper(chars[i])]

\* lines 644-648, self[a:b] on a Sequence: a new Sequence of the slice
GetSlice(s, a, b) == SequenceNew(Slice(s, a, b))

\* a method has not been called yet on the sequence
InitSequence ==
    /\ pc = "seq"
    /\ exc = "none"
    /\ ret = "none"
    /\ child_indexes = NoValue
    /\ likelihoods = NoValue
    /\ result = NoValue
    /\ child = 0
    /\ parent_col = 0
    /\ motif = 0
    /\ nalloc = 0
    /\ mprobs = NoValue
    /\ total = NoValue
    /\ counts = NoValue
    /\ loglik = NoValue
    /\ calls = 1
    /\ result0 = NoValue
    /\ written = {}
    /\ nwrites = <<>>
    /\ staleRead = FALSE
    /\ InitNoCmp
    /\ InitNoPar

\* ------------------------------------------------------------------------
\* SpecTermini: SequenceI.with_termini_unknown on every sequence of at most
\* MaxSeqLen characters
\* ------------------------------------------------------------------------

\* line 479: self.gap_vector(), true where the character is a gap
gap_vector(s) == [i \in DOMAIN s |-> s[i] \in Gaps]

\* lines 480-487: first_nongap is None when the loop met no non-gap
IsNone(gaps) == \A i \in DOMAIN gaps : gaps[i]

\* lines 480-485: first_nongap and last_nongap
first_nongap(gaps) ==
    IF IsNone(gaps) THEN None
    ELSE CHOOSE i \in DOMAIN gaps : ~gaps[i] /\ \A j \in DOMAIN gaps : ~gaps[j] => i <= j

last_nongap(gaps) ==
    IF IsNone(gaps) THEN None
    ELSE CHOOSE i \in DOMAIN gaps : ~gaps[i] /\ \A j \in DOMAIN gaps : ~gaps[j] => j <= i

\* lines 477-495.  On a sequence without a non-gap line 489 iterates over
\* the integer len(self), which raises TypeError.
with_termini_unknown(s) ==
    LET gaps == gap_vector(s)
        first == first_nongap(gaps)
        last == last_nongap(gaps)
    IN IF IsNone(gaps)
       THEN [exc |-> "TypeError", value |-> None]
       ELSE LET prefix == Repeat(Missing, first)
                mid == GetSlice(s, first, last + 1)
                suffix == Repeat(Missing, Len0(s) - last - 1)
            IN [exc |-> "none", value |-> SequenceNew(Concat(Concat(prefix, mid), suffix))]

WithTerminiUnknown ==
    /\ pc = "seq"
    /\ LET r == with_termini_unknown(self_seq)
       IN /\ retval' = r.value
          /\ exc' = r.exc
    /\ pc' = "called"
    /\ UNCHANGED <<kernelVars, self_seq, other, locals>>

InitTermini ==
    /\ self_seq \in Arrays(Chars, MaxSeqLen)
    /\ other = NoValue
    /\ locals = None
    /\ retval = None
    /\ InitSequence

NextTermini == WithTerminiUnknown

SpecTermini == InitTermini /\ [][NextTermini]_vars

\* ------------------------------------------------------------------------
\* SpecValid: ModelSequenceBase.is_valid on every array of at most MaxSeqLen
\* indices, in or out of the range of an Alphabet of AlphabetLen symbols
\* ------------------------------------------------------------------------

\* the names line 1056 can resolve: the parameter self and the builtin len
\* (the module defines and imports no m)
NamesInScope == {"self", "len"}

\* numpy's a.clip(lo, hi) on one element
Clip(x, lo, hi) == IF x < lo THEN lo ELSE IF x > hi THEN hi ELSE x

\* lines 1054-1056: return self._data == self._data.clip(m, 0, len(self.Alphabet) - 1).
\* The arguments of clip are evaluated first; m is not bound, which raises
\* NameError before anything is compared.
is_valid(data, alphabet_len) ==
    IF "m" \notin NamesInScope
    THEN [exc |-> "NameError", value |-> None]
    ELSE [exc |-> "none",
          value |-> [i \in DOMAIN data |-> data[i] = Clip(data[i], 0, alphabet_len - 1)]]

IsValid ==
    /\ pc = "seq"
    /\ LET r == is_valid(self_seq, locals.alphabet_len)
       IN /\ retval' = r.value
          /\ exc' = r.exc
    /\ pc' = "called"
    /\ UNCHANGED <<kernelVars, self_seq, other, locals>>

InitValid ==
    /\ self_seq \in Arrays((0 - 1)..AlphabetLen, MaxSeqLen)
    /\ locals = [alphabet_len |-> AlphabetLen]
    /\ other = NoValue
    /\ retval = None
    /\ InitSequence

NextValid == IsValid

SpecValid == InitValid /\ [][NextValid]_vars

\* ------------------------------------------------------------------------
\* SpecWindows: the generator Sequence.sliding_windows, run to exhaustion:
\* its body up to the loop at the first next(), then one window per
\* next().  An optional argument left at None is <<>>, one given is <<x>>.
\* locals holds window, step, start, end and the loop's pos, and keeps the
\* arguments start and end as passed in args; retval lists what was
\* yielded, each window with its start position.
\* ------------------------------------------------------------------------

\* lines 717-718: [x, default][x is None]
OrDefault(arg, default) == IF arg = <<>> THEN default ELSE arg[1]

\* line 720: if start < end and len(self) - end >= window - 1
WindowsFit(len, window, start, end) == start < end /\ len - end >= window - 1

\* line 721: pos is still in range(start, end, step)
InRange(pos, end, step) == IF step > 0 THEN pos < end ELSE pos > end

\* lines 717-721, up to the first iteration; range() refuses a step of 0
StartWindows ==
    /\ pc = "seq"
    /\ LET len == Len0(self_seq)
           start == OrDefault(locals.start, 0)
           end == Min(len - locals.window + 1,
                      OrDefault(locals.end, len - locals.window + 1))
       IN /\ locals' = [locals EXCEPT !.start = start, !.end = end, !.pos = start]
          /\ IF ~WindowsFit(len, locals.window, start, end)
             THEN pc' = "called" /\ exc' = exc
             ELSE IF locals.step = 0
                  THEN pc' = "called" /\ exc' = "ValueError"
                  ELSE pc' = "windows" /\ exc' = exc
    /\ UNCHANGED <<kernelVars, self_seq, other, retval>>

\* line 722: yield self[pos:pos + window]
YieldWindow ==
    /\ pc = "windows"
    /\ InRange(locals.pos, locals.end, locals.step)
    /\ retval' = Append(retval, [pos |-> locals.pos,
                                  seq |-> GetSlice(self_seq, locals.pos,
                                                   locals.pos + locals.window)])
    /\ locals' = [locals EXCEPT !.pos = @ + locals.step]
    /\ UNCHANGED <<kernelVars, self_seq, other, pc, exc>>

\* line 721: the range is exhausted
StopWindows ==
    /\ pc = "windows"
    /\ ~InRange(locals.pos, locals.end, locals.step)
    /\ pc' = "called"
    /\ UNCHANGED <<kernelVars, seqVars, exc>>

InitWindows ==
    /\ self_seq \in Arrays({"A", "-"}, MaxSeqLen)
    /\ \E window \in 1..(MaxSeqLen + 1), step \in (0 - 1)..2,
          start \in {<<>>} \cup {<<k>> : k \in 0..(MaxSeqLen - 1)},
          end \in {<<>>} \cup {<<k>> : k \in 0..MaxSeqLen} :
          locals = [window |-> window, step |-> step, start |-> start, end |-> end,
                    pos |-> 0, args |-> [start |-> start, end |-> end]]
    /\ other = NoValue
    /\ retval = <<>>
    /\ InitSequence

NextWindows == StartWindows \/ YieldWindow \/ StopWindows

SpecWindows == InitWindows /\ [][NextWindows]_vars

\* ------------------------------------------------------------------------
\* SpecFrac: SequenceI.frac_same_non_gaps and frac_diff_non_gaps on every
\* pair of sequences of at most MaxSeqLen characters, called in either
\* order.  retval keeps both results.
\* ------------------------------------------------------------------------

\* the shift s that brings i / c, 0 < i <= c, into the significand's range:
\* the least s with i * 2^s >= c * 2^(PrecBits - 1)
RECURSIVE QuotShift(_, _, _)
QuotShift(i, c, s) ==
    IF i * 2^s >= c * 2^(PrecBits - 1) THEN s ELSE QuotShift(i, c, s + 1)

\* lines 424, 452: i / c on Python integers, 0 <= i <= c: the float nearest
\* to the quotient, ties to even
TrueDiv(i, c) ==
    IF i = 0 THEN Zero
    ELSE LET s == QuotShift(i, c, 0)
             n == (i * 2^s) \div c
             r == (i * 2^s) % c
             up == 2 * r > c \/ (2 * r = c /\ n % 2 = 1)
         IN Round(IF up THEN n + 1 ELSE n, 0 - s)

\* mutant of NonGapPairs: only self's character is tested
NonGapPairs_self(a, b) ==
    {i \in Range0(Min(Len0(a), Len0(b))) : a[i] \notin Gaps}

\* lines 416-419, 444-447: the positions of zip(self, other) that are
\* counted, those where neither character is a gap
NonGapPairs(a, b) ==
    {i \in Range0(Min(Len0(a), Len0(b))) : ~(a[i] \in Gaps \/ b[i] \in Gaps)}

\* lines 402-426
frac_same_non_gaps(a, b) ==
    IF Len0(a) = 0 \/ Len0(b) = 0 THEN Zero
    ELSE LET count == Cardinality(NonGapPairs(a, b))
             identities == Cardinality({i \in NonGapPairs(a, b) : a[i] = b[i]})
         IN IF count # 0 THEN TrueDiv(identities, count) ELSE Zero

\* lines 428-454
frac_diff_non_gaps(a, b) ==
    IF Len0(a) = 0 \/ Len0(b) = 0 THEN Zero
    ELSE LET count == Cardinality(NonGapPairs(a, b))
             diffs == Cardinality({i \in NonGapPairs(a, b) : a[i] # b[i]})
         IN IF count # 0 THEN TrueDiv(diffs, count) ELSE Zero

FracSameNonGaps ==
    /\ pc = "seq"
    /\ retval.same = NoValue
    /\ retval' = [retval EXCEPT !.same = frac_same_non_gaps(self_seq, other)]
    /\ pc' = IF retval.diff = NoValue THEN "seq" ELSE "called"
    /\ UNCHANGED <<kernelVars, self_seq, other, locals, exc>>

FracDiffNonGaps ==
    /\ pc = "seq"
    /\ retval.diff = NoValue
    /\ retval' = [retval EXCEPT !.diff = frac_diff_non_gaps(self_seq, other)]
    /\ pc' = IF retval.same = NoValue THEN "seq" ELSE "called"
    /\ UNCHANGED <<kernelVars, self_seq, other, locals, exc>>

InitFrac ==
    /\ self_seq \in Arrays({"A", "C", "-"}, MaxSeqLen)
    /\ other \in Arrays({"A", "C", "-"}, MaxSeqLen)
    /\ locals = None
    /\ retval = [same |-> NoValue, diff |-> NoValue]
    /\ InitSequence

NextFrac == FracSameNonGaps \/ FracDiffNonGaps

SpecFrac == InitFrac /\ [][NextFrac]_vars

\* ------------------------------------------------------------------------
\* Properties
\* ------------------------------------------------------------------------

\* the call of sum_input_likelihoods has returned
Returned == pc # "loop"

\* every cell of the buffer
AllCells == {<<p, m>> : p \in DOMAIN result, m \in DOMAIN result[0]}

\* the product, child 0 first, of the children's elements for cell (p, m)
RECURSIVE ProductUpTo(_, _, _)
ProductUpTo(c, p, m) ==
    IF c = 0 THEN likelihoods[0][child_indexes[0][p]][m]
    ELSE FMul(ProductUpTo(c - 1, p, m), likelihoods[c][child_indexes[c][p]][m])

\* the sum, term 0 first, of the first k terms
RECURSIVE SumFirst(_, _)
SumFirst(terms, k) ==
    IF k = 0 THEN Zero ELSE FAdd(SumFirst(terms, k - 1), terms[k - 1])

\* C1: once sum_input_likelihoods has returned, every cell result[p][m]
\* holds exactly the product over all children c of
\* likelihoods[c][child_indexes[c][p]][m], nothing rescaled.
Thm_C1 ==
    Returned =>
        \A p \in DOMAIN result : \A m \in DOMAIN result[p] :
            result[p][m] = ProductUpTo(Len0(child_indexes) - 1, p, m)

\* two children with different maps, and a cell that is a rounded product
Wit_C1 ==
    /\ pc = "returned"
    /\ Len0(child_indexes) >= 2
    /\ child_indexes[0] # child_indexes[1]
    /\ \E p \in DOMAIN result : \E m \in DOMAIN result[p] :
          /\ result[p][m] \notin {Zero, One}
          /\ result[p][m] # likelihoods[0][child_indexes[0][p]][m]
          /\ result[p][m] # likelihoods[1][child_indexes[1][p]][m]

\* C2: whatever the buffer held when the call began (zeros, garbage, the
\* output of the evaluation before), the call leaves in it exactly what it
\* leaves in a fresh buffer for the same inputs.
Thm_C2 ==
    Returned =>
        result = sum_input_likelihoods(child_indexes,
                     Fill(Len0(result), Len0(result[0]), Zero), likelihoods)

\* a second call has returned into a buffer that held other output
Wit_C2 ==
    /\ pc = "returned"
    /\ calls >= 2
    /\ result0 \notin InitialBuffers(Len0(result), Len0(result[0]))
    /\ \A p \in DOMAIN result : result[p] # result0[p]

\* C3: no multiply reads a cell the call has not assigned before, and when
\* the pass of the first child is over it has assigned every cell.
Thm_C3 ==
    /\ ~staleRead
    /\ (Len0(child_indexes) >= 1 /\ child >= 1) => written = AllCells

\* the call ran on a buffer of garbage through two children and left none
Wit_C3 ==
    /\ pc = "returned"
    /\ Len0(child_indexes) >= 2
    /\ result0 = Fill(Len0(result), Len0(result[0]), NaN)
    /\ \A c \in AllCells : ~IsNaN(result[c[1]][c[2]])

\* C5: every total[p] is the sum over the motifs m of
\* result[p][m] * mprobs[m], a function of row p of the root matrix alone.
Thm_C5 ==
    \A p \in DOMAIN total :
        total[p] = SumFirst([m \in DOMAIN mprobs |-> FMul(result[p][m], mprobs[m])],
                            Len0(mprobs))

\* all patterns aggregated with two motifs weighing in, not all totals alike
Wit_C5 ==
    /\ pc = "totals"
    /\ Len0(total) = Len0(result)
    /\ \E m \in DOMAIN mprobs : mprobs[m] \notin {Zero, One}
    /\ \E p, q \in DOMAIN total :
          /\ total[p] # total[q]
          /\ total[p] \notin {Zero, One}
          /\ result[p][0] # result[p][1]

\* C6: get_log_sum_across_sites returns the sum over all patterns p, each
\* taken once, of ln(total[p]) * counts[p].
Thm_C6 ==
    pc = "done" =>
        loglik = SumFirst([p \in DOMAIN counts |-> FMul(FLog(total[p]), FromInt(counts[p]))],
                          Len0(counts))

\* a finite non-zero log-likelihood from counts that are not all 1
Wit_C6 ==
    /\ pc = "done"
    /\ IsFin(loglik)
    /\ ~IsZero(loglik)
    /\ counts[0] = 10
    /\ \A p \in DOMAIN total : total[p] # One

\* C7 as claimed: when some pattern has total 0 and a positive count, the
\* log aggregator raises nothing and returns -inf, whatever the others are.
Claim_C7 ==
    (pc = "done" /\ \E p \in DOMAIN total : IsZero(total[p]) /\ counts[p] > 0)
        => (exc = "none" /\ loglik = NegInf)

\* C10: sum_input_likelihoods changes neither child_indexes nor likelihoods,
\* allocates nothing and returns the result buffer itself; the root
\* aggregator leaves the matrix and mprobs as they were, the log aggregator
\* leaves the totals as they were.
Thm_C10 ==
    [][/\ pc = "loop" =>
              /\ child_indexes' = child_indexes
              /\ likelihoods' = likelihoods
              /\ nalloc' = nalloc
       /\ (pc = "loop" /\ pc' # "loop") => (ret' = "result" /\ result' = result)
       /\ pc = "returned" =>
              /\ result' = result
              /\ mprobs # NoValue => mprobs' = mprobs
       /\ pc = "totals" => (total' = total /\ mprobs' = mprobs /\ result' = result)
      ]_vars

\* a whole evaluation went through the three kernels
Wit_C10 ==
    /\ pc = "done"
    /\ ret = "result"
    /\ Len0(child_indexes) >= 2
    /\ nalloc = 1

\* C4 as claimed: on dimensions that disagree the call returns nothing and
\* ends with a ShapeMismatch error.
Claim_C4 ==
    ~DimsConsistent =>
        /\ ret = "none"
        /\ pc # "loop" => exc = "ShapeMismatch"

\* the exact product of the children's elements for cell (p, m), as
\* <<n, e>> standing for n * 2^e (the elements are finite)
RECURSIVE ExactUpTo(_, _, _)
ExactUpTo(c, p, m) ==
    LET v == likelihoods[c][child_indexes[c][p]][m]
    IN IF c = 0 THEN <<v[2], v[3]>>
       ELSE LET r == ExactUpTo(c - 1, p, m) IN <<r[1] * v[2], r[2] + v[3]>>

RECURSIVE OddPart(_)
OddPart(n) == IF n = 0 \/ n % 2 = 1 THEN n ELSE OddPart(n \div 2)

\* x is the exact number ex = <<n, e>> up to k roundings to nearest:
\* (1 - 2^-PrecBits)^k <= x / ex <= (1 + 2^-PrecBits)^k
WithinRoundings(x, ex, k) ==
    /\ IsFin(x)
    /\ IF ex[1] = 0 THEN IsZero(x)
       ELSE LET e0 == Min(x[3], ex[2])
                xs == x[2] * 2^(x[3] - e0) * 2^(PrecBits * k)
                es == ex[1] * 2^(ex[2] - e0)
            IN /\ (2^PrecBits - 1)^k * es <= xs
               /\ xs <= (2^PrecBits + 1)^k * es

\* the product for cell (p, m) with the children taken in the order q
RECURSIVE ProductInOrder(_, _, _, _)
ProductInOrder(q, c, p, m) ==
    LET v == likelihoods[q[c]][child_indexes[q[c]][p]][m]
    IN IF c = 0 THEN v ELSE FMul(ProductInOrder(q, c - 1, p, m), v)

\* C8 as claimed: the permuted call leaves the same matrix as the first.
Claim_C8 == pc = "compared" => result2 = result

\* C8 amended: the permuted call multiplies the same factors in the
\* permuted order; its matrix is the same for two children and wherever
\* the product needs no rounding; everywhere both matrices are the exact
\* product up to one rounding per multiplication.
Thm_C8 ==
    pc = "compared" =>
        LET n == Len0(child_indexes)
        IN \A p \in DOMAIN result : \A m \in DOMAIN result[p] :
              LET ex == ExactUpTo(n - 1, p, m)
              IN /\ result2[p][m] = ProductInOrder(perm, n - 1, p, m)
                 /\ n <= 2 => result2[p][m] = result[p][m]
                 /\ OddPart(ex[1]) < 2^PrecBits => result2[p][m] = result[p][m]
                 /\ WithinRoundings(result[p][m], ex, n - 1)
                 /\ WithinRoundings(result2[p][m], ex, n - 1)

\* three children in another order, and a cell where the two orders differ
Wit_C8 ==
    /\ pc = "compared"
    /\ Len0(child_indexes) = 3
    /\ \E i \in DOMAIN perm : perm[i] # i
    /\ \E p \in DOMAIN result : \E m \in DOMAIN result[p] :
          result2[p][m] # result[p][m]

Thm_C11 ==
    (pc = "returned" /\ workers[2].pc = "returned" /\ workers[2].buffer = "result2") =>
        /\ result = sum_input_likelihoods(child_indexes, result0, likelihoods)
        /\ result2 = sum_input_likelihoods(child_indexes, workers[2].result0, likelihoods)
        /\ \A p \in DOMAIN result : \A m \in DOMAIN result[p] :
              /\ result[p][m] = ProductUpTo(Len0(child_indexes) - 1, p, m)
              /\ result2[p][m] = ProductUpTo(Len0(child_indexes) - 1, p, m)

\* both calls have returned, two children each, and the second call made
\* steps while the first was under way
Wit_C11 ==
    /\ pc = "returned"
    /\ workers[2].pc = "returned"
    /\ workers[2].buffer = "result2"
    /\ workers[2].overlapped
    /\ Len0(child_indexes) >= 2
    /\ \E p \in DOMAIN result : \E m \in DOMAIN result[p] :
          result[p][m] \notin {Zero, One}

\* Not claimed, and violated: handed one and the same buffer, the two calls
\* do interfere (a cell multiplied twice by the second child).
AliasedCallsAgree ==
    (pc = "returned" /\ workers[2].pc = "returned" /\ workers[2].buffer = "result") =>
        \A p \in DOMAIN result : \A m \in DOMAIN result[p] :
            result[p][m] = ProductUpTo(Len0(child_indexes) - 1, p, m)

\* C12: when the workers, each on its own parent rows, are through, the
\* buffer holds exactly the matrix the sequential loop leaves: the same
\* float in every cell.
Thm_C12 ==
    pc = "joined" =>
        /\ result = sum_input_likelihoods(child_indexes, result0, likelihoods)
        /\ \A p \in DOMAIN result : \A m \in DOMAIN result[p] :
              result[p][m] = ProductUpTo(Len0(child_indexes) - 1, p, m)

\* two workers both had rows, one was multiplying while the other was still
\* assigning, and some cell is a rounded product
Wit_C12 ==
    /\ pc = "joined"
    /\ \E i, j \in DOMAIN workers :
          /\ i # j
          /\ Len(workers[i].rows) > 0
          /\ Len(workers[j].rows) > 0
          /\ workers[i].ahead
    /\ \E p \in DOMAIN result : \E m \in DOMAIN result[p] :
          /\ result[p][m] \notin {Zero, One}
          /\ result[p][m] # likelihoods[0][child_indexes[0][p]][m]

\* what the sequential loop returns for the inputs of SpecReduce
SequentialRes ==
    IF counts # NoValue THEN get_log_sum_across_sites(total, counts)
    ELSE get_total_log_likelihood_step1(result[0], mprobs)

\* the terms added to 0.0 one by one in the order ord
RECURSIVE SumInOrder(_, _)
SumInOrder(ord, k) ==
    IF k = 0 THEN Zero ELSE FAdd(SumInOrder(ord, k - 1), Terms[ord[k]])

\* the exact sum of the first k terms (all finite), as <<n, e>> for n * 2^e
RECURSIVE ExactSum(_)
ExactSum(k) ==
    IF k = 0 THEN <<0, 0>>
    ELSE LET r == ExactSum(k - 1)
             t == Terms[k - 1]
             e0 == Min(r[2], t[3])
         IN <<r[1] * 2^(r[2] - e0) + t[2] * 2^(t[3] - e0), e0>>

\* WithinRoundings for sums of terms that are all <= 0 or all >= 0
SumWithinRoundings(x, ex, k) ==
    /\ IsFin(x)
    /\ WithinRoundings(Fin(Abs(x[2]), x[3]), <<Abs(ex[1]), ex[2]>>, k)

\* no iteration's update was lost: every read of res was followed by that
\* iteration's write before any other write
NoLostUpdate == \A i \in DOMAIN workers : ~workers[i].lost

\* C13 as claimed: whatever the interleaving of the iterations, the value
\* returned is the one the sequential loop returns.
Claim_C13 == pc = "reduced" => sharedRes = SequentialRes

\* C13 amended: with every res += carried out undivided, the value
\* returned is the float sum of the terms in the order the iterations ran;
\* it is the sequential value when there are at most two terms or when a
\* term is infinite or NaN, and otherwise it and the sequential value are
\* both the exact sum up to one rounding per addition.
Thm_C13 ==
    (pc = "reduced" /\ NoLostUpdate) =>
        LET n == Len0(Terms)
        IN /\ sharedRes = SumInOrder(order, n)
           /\ n <= 2 => sharedRes = SequentialRes
           /\ (\E i \in DOMAIN Terms : ~IsFin(Terms[i])) => sharedRes = SequentialRes
           /\ (\A i \in DOMAIN Terms : IsFin(Terms[i])) =>
                 /\ SumWithinRoundings(sharedRes, ExactSum(n), n - 1)
                 /\ SumWithinRoundings(SequentialRes, ExactSum(n), n - 1)

\* the log aggregator's iterations ran undivided in another order than the
\* loop's and returned another float than the loop does
Wit_C13 ==
    /\ pc = "reduced"
    /\ NoLostUpdate
    /\ counts # NoValue
    /\ \E k \in DOMAIN order : order[k] # k - 1
    /\ IsFin(sharedRes)
    /\ sharedRes # SequentialRes

\* C14 as claimed: whatever the interleaving of the children's passes, the
\* buffer ends as the sequential call leaves it.
Claim_C14 ==
    pc = "joined" => result = sum_input_likelihoods(child_indexes, result0, likelihoods)

\* C14 amended: when on every cell the first child's assignment came
\* before the other children's multiplications, every cell is the exact
\* product of the children's elements up to one rounding per
\* multiplication, and is the very float of the sequential call for two
\* children and wherever the product needs no rounding.
Thm_C14 ==
    (pc = "joined" /\ ~staleRead) =>
        LET n == Len0(child_indexes)
        IN \A p \in DOMAIN result : \A m \in DOMAIN result[p] :
              LET ex == ExactUpTo(n - 1, p, m)
              IN /\ WithinRoundings(result[p][m], ex, n - 1)
                 /\ n <= 2 => result[p][m] = ProductUpTo(n - 1, p, m)
                 /\ OddPart(ex[1]) < 2^PrecBits => result[p][m] = ProductUpTo(n - 1, p, m)

\* three children, no multiplication ahead of the assignment, and a cell
\* that is not the float the sequential call computes
Wit_C14 ==
    /\ pc = "joined"
    /\ ~staleRead
    /\ Len0(child_indexes) = 3
    /\ \E p \in DOMAIN result : \E m \in DOMAIN result[p] :
          result[p][m] # ProductUpTo(2, p, m)

\* the place in the walk at which event ev happened, 0 when it has not
EventAt(ev) ==
    IF \E i \in DOMAIN order : order[i] = ev
    THEN CHOOSE i \in DOMAIN order : order[i] = ev
    ELSE 0

\* C15: the Node Combiner runs for an internal node only after every child
\* has produced its transformed matrix (a child that is itself internal
\* after its own combination), the matrices it is given are the children's
\* transformed ones, and a non-root node shows its parent nothing but the
\* branch transform of its own matrix.
Thm_C15 ==
    \A n \in TreeNodes(tree) :
        /\ EventAt(<<"combine", n>>) > 0 =>
              /\ \A c \in Children(tree, n) :
                    /\ 0 < EventAt(<<"transform", c>>)
                    /\ EventAt(<<"transform", c>>) < EventAt(<<"combine", n>>)
                    /\ ~IsLeaf(tree, c) =>
                          /\ 0 < EventAt(<<"combine", c>>)
                          /\ EventAt(<<"combine", c>>) < EventAt(<<"transform", c>>)
              /\ \A i \in DOMAIN walk[n].inputs :
                    LET c == ChildSeq(tree, n)[i + 1]
                    IN walk[n].inputs[i] = BranchTransform(walk[c].raw, tree.branch[c])
        /\ (n # tree.root /\ walk[n].state = "exposed") =>
              walk[n].out = BranchTransform(walk[n].raw, tree.branch[n])

\* the walk is over on the tree with an internal node, whose leaves were
\* not the first to be transformed, and its branches change the matrices
Wit_C15 ==
    /\ pc = "walked"
    /\ 3 \in TreeNodes(tree)
    /\ order[1] = <<"transform", 2>>
    /\ walk[3].out # walk[3].raw
    /\ \A p \in DOMAIN result : \A m \in DOMAIN result[p] : ~IsNaN(result[p][m])

\* every child's index map is the identity on the parent's patterns
IdentityMaps ==
    \A c \in DOMAIN child_indexes :
        /\ DOMAIN child_indexes[c] = DOMAIN likelihoods[c]
        /\ \A p \in DOMAIN child_indexes[c] : child_indexes[c][p] = p

\* the product, child 0 first, of the children's elements at (p, m)
RECURSIVE ElementwiseUpTo(_, _, _)
ElementwiseUpTo(c, p, m) ==
    IF c = 0 THEN likelihoods[0][p][m]
    ELSE FMul(ElementwiseUpTo(c - 1, p, m), likelihoods[c][p][m])

\* C16: under identity index maps the call leaves the elementwise product
\* of the children's matrices, result[p][m] = product over c of
\* likelihoods[c][p][m].
Thm_C16 ==
    (Returned /\ IdentityMaps) =>
        /\ DOMAIN result = DOMAIN likelihoods[0]
        /\ \A p \in DOMAIN result : \A m \in DOMAIN result[p] :
              result[p][m] = ElementwiseUpTo(Len0(likelihoods) - 1, p, m)

\* two children under identity maps, rows that differ, a rounded product
Wit_C16 ==
    /\ pc = "returned"
    /\ IdentityMaps
    /\ Len0(child_indexes) >= 2
    /\ Len0(result) >= 2
    /\ result[0] # result[1]
    /\ \E p \in DOMAIN result : \E m \in DOMAIN result[p] :
          /\ result[p][m] \notin {Zero, One}
          /\ result[p][m] # likelihoods[0][p][m]
          /\ result[p][m] # likelihoods[1][p][m]

\* a row with 1 at motif k and 0 elsewhere
OneHotRow(row, k) == \A m \in DOMAIN row : row[m] = IF m = k THEN One ELSE Zero

\* two leaves, one pattern of count 10, motif probabilities 1/2 and 1/2
TwoTaxonScenario ==
    /\ pc = "done"
    /\ Len0(child_indexes) = 2
    /\ Len0(result) = 1
    /\ counts[0] = 10
    /\ mprobs[0] = Round(1, 0 - 1)
    /\ mprobs[1] = Round(1, 0 - 1)

\* C19: in the two-taxon scenario, leaves one-hot on motifs 0 and 1 give
\* total[0] = 0 and log-likelihood -inf (scenario A); leaves both one-hot
\* on motif 0 give total[0] = 0.5 and log-likelihood 10 * log(0.5)
\* (scenario B).
Thm_C19 ==
    TwoTaxonScenario =>
        LET rowA == likelihoods[0][child_indexes[0][0]]
            rowB == likelihoods[1][child_indexes[1][0]]
        IN /\ (OneHotRow(rowA, 0) /\ OneHotRow(rowB, 1)) =>
                 /\ total[0] = Zero
                 /\ loglik = NegInf
           /\ (OneHotRow(rowA, 0) /\ OneHotRow(rowB, 0)) =>
                 /\ total[0] = Round(1, 0 - 1)
                 /\ loglik = FMul(FromInt(10), FLog(Round(1, 0 - 1)))
                 /\ IsFin(loglik)
                 /\ loglik[2] < 0

\* scenario A has been run to its end
Wit_C19 ==
    /\ TwoTaxonScenario
    /\ OneHotRow(likelihoods[0][child_indexes[0][0]], 0)
    /\ OneHotRow(likelihoods[1][child_indexes[1][0]], 1)
    /\ loglik = NegInf

\* scenario B has been run to its end
ScenarioB ==
    /\ TwoTaxonScenario
    /\ OneHotRow(likelihoods[0][child_indexes[0][0]], 0)
    /\ OneHotRow(likelihoods[1][child_indexes[1][0]], 0)
    /\ IsFin(loglik)

\* C20: with the single leaf as the root's only child, row p of the
\* combiner's result is the leaf's row child_indexes[0][p], unchanged, and
\* the pipeline returns the sum over the patterns p of
\* log(leaf row . mprobs) * counts[p].
Thm_C20 ==
    Len0(child_indexes) = 1 =>
        /\ Returned =>
              \A p \in DOMAIN result : result[p] = likelihoods[0][child_indexes[0][p]]
        /\ pc = "done" =>
              loglik = SumFirst(
                  [p \in DOMAIN counts |->
                      FMul(FLog(SumFirst([m \in DOMAIN mprobs |->
                                    FMul(likelihoods[0][child_indexes[0][p]][m], mprobs[m])],
                                Len0(mprobs))),
                           FromInt(counts[p]))],
                  Len0(counts))

\* one leaf, several patterns with rows that differ, a finite non-zero
\* log-likelihood
Wit_C20 ==
    /\ pc = "done"
    /\ Len0(child_indexes) = 1
    /\ Len0(result) >= 2
    /\ result[0] # result[1]
    /\ IsFin(loglik)
    /\ ~IsZero(loglik)
    /\ \E p \in DOMAIN counts : counts[p] > 1

\* a row of ones: a fully ambiguous pattern
AllOnes(row) == \A m \in DOMAIN row : row[m] = One

\* the product for cell (p, m) over the children q[0] .. q[c] whose mapped
\* row is not all ones, in that order; 1 when there is none
RECURSIVE ProductOfOthers(_, _, _, _)
ProductOfOthers(q, c, p, m) ==
    IF c < 0 THEN NoValue
    ELSE LET row == likelihoods[q[c]][child_indexes[q[c]][p]]
             rest == ProductOfOthers(q, c - 1, p, m)
         IN IF AllOnes(row) THEN rest
            ELSE IF rest = NoValue THEN row[m]
            ELSE FMul(rest, row[m])

OneIfNone(x) == IF x = NoValue THEN One ELSE x

\* C17: a child whose mapped row for pattern p is all ones leaves the
\* output row what the other children's product is, wherever it stands in
\* the child list (first included); when every child's row is all ones the
\* output row is all ones.
Thm_C17 ==
    Returned =>
        LET n == Len0(child_indexes)
            asGiven == [i \in Range0(n) |-> i]
        IN \A p \in DOMAIN result : \A m \in DOMAIN result[p] :
               result[p][m] = OneIfNone(ProductOfOthers(asGiven, n - 1, p, m))

\* three children, the first with an all-ones row for a pattern where the
\* other two have none, and the output row is not all ones
Wit_C17 ==
    /\ pc = "returned"
    /\ Len0(child_indexes) = 3
    /\ \E p \in DOMAIN result :
          /\ AllOnes(likelihoods[0][child_indexes[0][p]])
          /\ ~AllOnes(likelihoods[1][child_indexes[1][p]])
          /\ ~AllOnes(likelihoods[2][child_indexes[2][p]])
          /\ ~AllOnes(result[p])

\* the all-ones row is the last child's, the other two hold probabilities
\* whose product is rounded
LastAmbiguous ==
    /\ pc = "returned"
    /\ Len0(child_indexes) = 3
    /\ \E p \in DOMAIN result :
          /\ AllOnes(likelihoods[2][child_indexes[2][p]])
          /\ \E m \in DOMAIN result[p] :
                /\ result[p][m] \notin {Zero, One}
                /\ result[p][m] # likelihoods[0][child_indexes[0][p]][m]
                /\ result[p][m] # likelihoods[1][child_indexes[1][p]][m]

\* every child's row for some pattern is all ones, and so is the output row
AllAmbiguous ==
    /\ pc = "returned"
    /\ Len0(child_indexes) >= 2
    /\ \E p \in DOMAIN result :
          /\ \A c \in DOMAIN likelihoods : AllOnes(likelihoods[c][child_indexes[c][p]])
          /\ AllOnes(result[p])

\* the exact number L * f * c for the float L = log_lhs[p], as <<n, e>>
ExactScaledTerm ==
    LET L == FLog(total[scaled.p])
    IN <<Abs(L[2]) * scaled.f * counts[scaled.p], L[3]>>

AbsF(x) == Fin(Abs(x[2]), x[3])

\* C18 as claimed: the scaled pattern's addend is f times its addend
\* before, the other patterns' addends are what they were.
Claim_C18 ==
    pc = "scaled" =>
        \A i \in DOMAIN counts :
            scaled.terms[i] = IF i = scaled.p
                              THEN FMul(FromInt(scaled.f), scaled.terms0[i])
                              ELSE scaled.terms0[i]

\* C18 amended: the other patterns' addends are what they were; the scaled
\* pattern's addend is f times its addend before exactly when f is a power
\* of two or log(total[p]) is 0 or -inf, and otherwise up to rounding: the
\* new addend is within two roundings, f times the old one within four, of
\* the exact log_lhs[p] * f * count[p].  The value returned is the sum of
\* the addends.
Thm_C18 ==
    pc = "scaled" =>
        LET p == scaled.p
            f == scaled.f
            L == FLog(total[p])
            was == FMul(FromInt(f), scaled.terms0[p])
        IN /\ \A i \in DOMAIN counts : i # p => scaled.terms[i] = scaled.terms0[i]
           /\ (OddPart(f) = 1 \/ ~IsFin(L) \/ IsZero(L)) => scaled.terms[p] = was
           /\ (IsFin(L) /\ ~IsZero(L)) =>
                 /\ L[2] < 0
                 /\ WithinRoundings(AbsF(scaled.terms[p]), ExactScaledTerm, 2)
                 /\ WithinRoundings(AbsF(was), ExactScaledTerm, 4)
           /\ scaled.loglik = SumFirst(scaled.terms, Len0(scaled.terms))
           /\ loglik = SumFirst(scaled.terms0, Len0(scaled.terms0))

\* a count was tripled and the pattern's addend is not three times the
\* addend before
Wit_C18 ==
    /\ pc = "scaled"
    /\ scaled.f = 3
    /\ counts[scaled.p] > 0
    /\ IsFin(scaled.terms[scaled.p])
    /\ scaled.terms[scaled.p] # FMul(FromInt(3), scaled.terms0[scaled.p])
    /\ scaled.terms[scaled.p] # scaled.terms0[scaled.p]

\* the exact sum of a vector of finite floats, times 2^(2 * PrecBits)
RECURSIVE ScaledSum(_, _)
ScaledSum(v, k) ==
    IF k = 0 THEN 0
    ELSE ScaledSum(v, k - 1) + v[k - 1][2] * 2^(v[k - 1][3] + 2 * PrecBits)

SumsToOne(mp) == ScaledSum(mp, Len0(mp)) = 2^(2 * PrecBits)

\* C21: motif probabilities that do not sum to 1 are neither trapped nor
\* corrected: no error is raised, the aggregation of every pattern returns,
\* and every total is the plain weighted sum of its row with the vector as
\* given (a total above 1 included).
Thm_C21 ==
    (mprobs # NoValue /\ ~SumsToOne(mprobs)) =>
        /\ exc = "none"
        /\ Len0(total) = Len0(result) => pc \in {"totals", "done"}
        /\ \A p \in DOMAIN total :
              total[p] = SumFirst([m \in DOMAIN mprobs |-> FMul(result[p][m], mprobs[m])],
                                  Len0(mprobs))

\* every pattern aggregated with a vector that sums to more than 1, and a
\* total above 1 came out
Wit_C21 ==
    /\ pc = "totals"
    /\ ~SumsToOne(mprobs)
    /\ ScaledSum(mprobs, Len0(mprobs)) > 2^(2 * PrecBits)
    /\ \E p \in DOMAIN total : ExceedsOne(total[p])
    /\ \E p \in DOMAIN total : ~ExceedsOne(total[p]) /\ ~IsZero(total[p])

\* the positions of s from its first to its last non-gap
Interior(s) ==
    {i \in DOMAIN s : (\E j \in DOMAIN s : j <= i /\ s[j] \notin Gaps)
                         /\ (\E j \in DOMAIN s : j >= i /\ s[j] \notin Gaps)}

\* C22 as claimed: for every sequence with_termini_unknown returns a
\* sequence of the same length in which the leading and trailing gaps are
\* the missing character and the positions from the first to the last
\* non-gap are unchanged; all gaps give all missing characters.
Claim_C22 ==
    pc = "called" =>
        /\ exc = "none"
        /\ DOMAIN retval = DOMAIN self_seq
        /\ \A i \in DOMAIN self_seq :
              retval[i] = IF i \in Interior(self_seq) THEN self_seq[i] ELSE Missing

\* C23 as claimed: is_valid answers true exactly when every index of the
\* sequence's data lies in 0..len(Alphabet)-1, and false otherwise.
Claim_C23 ==
    pc = "called" =>
        /\ exc = "none"
        /\ retval = (\A i \in DOMAIN self_seq :
                        0 <= self_seq[i] /\ self_seq[i] <= locals.alphabet_len - 1)

\* the window start positions C24 describes: start, start + step, ... up
\* to and including end (every position when end is None), as long as a
\* full window fits
ClaimedStarts ==
    LET len == Len0(self_seq)
        start == OrDefault(locals.args.start, 0)
        last == OrDefault(locals.args.end, len - locals.window)
    IN {p \in 0..len : /\ p >= start
                       /\ (p - start) % locals.step = 0
                       /\ p <= last
                       /\ p + locals.window <= len}

\* C24 as claimed (for a step of at least 1): the generator raises nothing
\* and yields, in increasing order, exactly the windows that start at the
\* claimed positions, each the window characters of self from there.
Claim_C24 ==
    (pc = "called" /\ locals.step >= 1) =>
        /\ exc = "none"
        /\ {retval[i].pos : i \in DOMAIN retval} = ClaimedStarts
        /\ \A i, j \in DOMAIN retval : i < j => retval[i].pos < retval[j].pos
        /\ \A i \in DOMAIN retval :
              /\ Len0(retval[i].seq) = locals.window
              /\ \A k \in Range0(locals.window) :
                    retval[i].seq[k] = self_seq[retval[i].pos + k]

\* the positions, up to the shorter length, that are gap-free in both
GapFree ==
    {i \in DOMAIN self_seq \cap DOMAIN other :
        self_seq[i] \notin Gaps /\ other[i] \notin Gaps}

\* the float x is a float nearest to the fraction i / c
NearestTo(x, i, c) ==
    /\ IsFin(x)
    /\ IF x[3] >= 0
       THEN 2 * Abs(x[2] * 2^x[3] * c - i) <= c * 2^x[3]
       ELSE 2 * Abs(x[2] * c - i * 2^(0 - x[3])) <= c

\* C25: both fractions are 0 when either sequence is empty or no position
\* is gap-free in both; otherwise they are the fractions, among the
\* positions gap-free in both, of those where the sequences agree and of
\* those where they differ, and their sum is 1.
Thm_C25 ==
    pc = "called" =>
        LET count == Cardinality(GapFree)
            agree == Cardinality({i \in GapFree : self_seq[i] = other[i]})
        IN /\ exc = "none"
           /\ (Len0(self_seq) = 0 \/ Len0(other) = 0 \/ count = 0) =>
                 (retval.same = Zero /\ retval.diff = Zero)
           /\ count > 0 =>
                 /\ NearestTo(retval.same, agree, count)
                 /\ NearestTo(retval.diff, count - agree, count)
                 /\ FAdd(retval.same, retval.diff) = One

\* sequences of different lengths, a gap in the longer, three positions
\* counted of which one agrees: the fractions are rounded thirds
Wit_C25 ==
    /\ pc = "called"
    /\ Len0(self_seq) # Len0(other)
    /\ \E i \in DOMAIN self_seq \cup DOMAIN other :
          \/ i \in DOMAIN self_seq /\ self_seq[i] \in Gaps
          \/ i \in DOMAIN other /\ other[i] \in Gaps
    /\ Cardinality(GapFree) = 3
    /\ Cardinality({i \in GapFree : self_seq[i] = other[i]}) = 1
    /\ retval.same # retval.diff

\* C26: a cell the call has written that holds 0 holds 0 after every later
\* step of the call (the children's entries are finite), no error is
\* raised, and a pattern whose root row is 0 on every motif gets total 0.
Thm_C26 ==
    /\ [](exc = "none")
    /\ [](\A p \in DOMAIN total :
            (\A m \in DOMAIN result[p] : result[p][m] = Zero) => total[p] = Zero)
    /\ [][pc = "loop" =>
            \A cell \in written :
                result[cell[1]][cell[2]] = Zero => result'[cell[1]][cell[2]] = Zero]_vars

\* a row became 0 on every motif under the first two of three children,
\* the third child's entries there are probabilities other than 0 and 1,
\* and the pattern's total is 0
Wit_C26 ==
    /\ pc = "totals"
    /\ Len0(child_indexes) = 3
    /\ \E p \in DOMAIN result :
          /\ \A m \in DOMAIN result[p] :
                /\ ProductUpTo(1, p, m) = Zero
                /\ likelihoods[0][child_indexes[0][p]][m] # likelihoods[1][child_indexes[1][p]][m]
                /\ likelihoods[2][child_indexes[2][p]][m] \notin {Zero, One}
                /\ result[p][m] = Zero
          /\ total[p] = Zero
          /\ \E q \in DOMAIN total : total[q] # Zero

\* how many times the current call has written the cell
Writes(cell) == IF cell \in DOMAIN nwrites THEN nwrites[cell] ELSE 0

\* the cell comes before the loop's position in the current pass
Passed(p, m) == p < parent_col \/ (p = parent_col /\ m < motif)

\* the invariant of the loop of sum_input_likelihoods: with `child` passes
\* completed, every cell below the map length and the result width holds
\* the product over the children 0..child-1 and has been written `child`
\* times, the cells the pass under way has passed one child and one write
\* more; the call returns when `child` is the number of children.
LoopInvariant ==
    LET done == IF pc = "loop" THEN child ELSE Len0(child_indexes)
    IN /\ done <= Len0(child_indexes)
       /\ \A p \in DOMAIN child_indexes[0] : \A m \in DOMAIN result[0] :
             LET n == IF pc = "loop" /\ Passed(p, m) THEN done + 1 ELSE done
             IN /\ Writes(<<p, m>>) = n
                /\ n >= 1 => result[p][m] = ProductUpTo(n - 1, p, m)

\* C27: the loop invariant holds at every step, in particular when the
\* pass of each child completes, and the call terminates, after exactly C
\* passes and C writes of every cell.
Thm_C27 == [](LoopInvariant) /\ <>(pc # "loop")

\* the pass of the second of three children has just completed on cells
\* that hold rounded products
Wit_C27 ==
    /\ pc = "loop"
    /\ Len0(child_indexes) = 3
    /\ child = 2
    /\ parent_col = 0
    /\ motif = 0
    /\ child_indexes[0] # child_indexes[1]
    /\ \A p \in DOMAIN result : \A m \in DOMAIN result[p] : Writes(<<p, m>>) = 2
    /\ \E p \in DOMAIN result : \E m \in DOMAIN result[p] :
          /\ result[p][m] \notin {Zero, One}
          /\ result[p][m] # likelihoods[0][child_indexes[0][p]][m]
          /\ result[p][m] # likelihoods[1][child_indexes[1][p]][m]

\* the rows of the buffer the index maps reach (none without children)
MappedRows == IF Len0(child_indexes) = 0 THEN {} ELSE DOMAIN child_indexes[0]

\* C28: the call writes only cells in rows below the length of the index
\* maps: the rows at or beyond it hold what they held before the call,
\* and with zero children the whole buffer is returned as it was.
Thm_C28 ==
    /\ \A cell \in written \cup DOMAIN nwrites : cell[1] \in MappedRows
    /\ \A p \in DOMAIN result : p \notin MappedRows => result[p] = result0[p]
    /\ (pc \in {"returned", "combined"} /\ Len0(child_indexes) = 0) =>
          (result = result0 /\ ret = "result")

\* two children combined into a buffer of garbage with one row more than
\* the maps are long: that row still holds the garbage, the others none
Wit_C28 ==
    /\ pc \in {"returned", "combined"}
    /\ Len0(child_indexes) = 2
    /\ Len0(result) = Len0(child_indexes[0]) + 1
    /\ \A p \in DOMAIN result : \A m \in DOMAIN result[p] :
          /\ IsNaN(result0[p][m])
          /\ IsNaN(result[p][m]) <=> p \notin MappedRows

\* no children: the call has returned the buffer of garbage untouched
NoChildren ==
    /\ pc \in {"returned", "combined"}
    /\ Len0(child_indexes) = 0
    /\ written = {}
    /\ \A p \in DOMAIN result : \A m \in DOMAIN result[p] : IsNaN(result[p][m])

\* the children's matrices with every row that no map entry of parent row
\* p refers to replaced by a row of v
OtherRowsSet(p, v) ==
    [c \in DOMAIN likelihoods |->
        [r \in DOMAIN likelihoods[c] |->
            IF r = child_indexes[c][p] THEN likelihoods[c][r]
            ELSE [m \in DOMAIN likelihoods[c][r] |-> v]]]

\* C29: the output row of parent row p is the same when every child row
\* that no map entry of p refers to is changed (to zeros, to NaN), and
\* two parent rows whose map entries agree for every child get equal
\* output rows.
Thm_C29 ==
    pc \in {"returned", "combined"} =>
        /\ \A p \in MappedRows : \A v \in {Zero, NaN} :
              sum_input_likelihoods(child_indexes, result0, OtherRowsSet(p, v))[p] = result[p]
        /\ \A p, q \in MappedRows :
              (\A c \in DOMAIN child_indexes : child_indexes[c][p] = child_indexes[c][q])
                  => result[p] = result[q]

\* two children, a child row that no parent row refers to, two parent rows
\* with the same map entries and a third with others, and output rows of
\* rounded products
Wit_C29 ==
    /\ pc = "returned"
    /\ Len0(child_indexes) >= 2
    /\ \E c \in DOMAIN child_indexes : \E r \in DOMAIN likelihoods[c] :
          \A p \in MappedRows : child_indexes[c][p] # r
    /\ \E p, q, u \in MappedRows :
          /\ p # q
          /\ \A c \in DOMAIN child_indexes : child_indexes[c][p] = child_indexes[c][q]
          /\ \E c \in DOMAIN child_indexes : child_indexes[c][p] # child_indexes[c][u]
          /\ result[p] # result[u]
          /\ \A m \in DOMAIN result[p] :
                /\ result[p][m] \notin {Zero, One}
                /\ result[p][m] # likelihoods[0][child_indexes[0][p]][m]

\* C30 as claimed: a pattern of count 0 contributes nothing, whatever its
\* likelihood (0 included): the log aggregator returns the sum of
\* ln(total[p]) * counts[p] over the patterns of positive count only.
Claim_C30 ==
    pc = "done" =>
        loglik = SumFirst([p \in DOMAIN counts |->
                              IF counts[p] = 0 THEN Zero
                              ELSE FMul(FLog(total[p]), FromInt(counts[p]))],
                          Len0(counts))

====
